---- MODULE Spec2Model ----
(***************************************************************************)
(* A model of iOffice/svg2png: the puppeteer browser pool                  *)
(* (createPuppeteerPool), the conversion pipeline of class Svg2png, the    *)
(* dimension helpers (getDimensions, setDimensions) and the chunk stitcher *)
(* (Svg2png.stitchBlocks).                                                 *)
(*                                                                         *)
(* JavaScript runs a callback and all the promise continuations it makes   *)
(* ready to completion before the next timer or I/O callback runs.  Every  *)
(* action below is therefore one such turn: the return of one external     *)
(* call (pool, browser, codec, timer) followed by everything the code does *)
(* until it awaits the next external call.                                 *)
(***************************************************************************)
EXTENDS Integers, Sequences, FiniteSets, TLC

(***************************************************************************)
(* Bounds of the model.                                                    *)
(***************************************************************************)
NReq == 2            \* conversions (Svg2png objects) of the pipeline
NClients == 3        \* parallel pool.use callers of the bare pool
MaxBrowsers == 4     \* cap on the browsers ever launched (browserId)

(***************************************************************************)
(* Program constants.                                                      *)
(***************************************************************************)
DefaultMaxUses == 1  \* puppeteerPoolConfig.maxUses
PoolMin == 1         \* genericPoolConfig.min
PoolMax == 2         \* genericPoolConfig.max

Reqs == 1..NReq
Clients == 1..NClients
BrowserIds == 1..MaxBrowsers

Min(a, b) == IF a <= b THEN a ELSE b
Max(a, b) == IF a >= b THEN a ELSE b

VARIABLES
    pool,          \* the generic-pool of browsers, see NoPool / createPuppeteerPool
    maxUsesCfg,    \* config.maxUses given to createPuppeteerPool
    statics,       \* Svg2png.configuration and the calls of the static methods
    cpc,           \* bare pool: where each pool.use caller is
    cheld,         \* bare pool: the browser a caller's callback runs with (0: none)
    cgot,          \* bare pool: how many times pool.acquire resolved for the caller
    creleased,     \* bare pool: how many times pool.release was called for the caller
    cresult,       \* bare pool: how the promise of pool.use settled
    conv,          \* the Svg2png object of each conversion, see NewConv
    pageCloseErrors, \* Svg2png.pageCloseErrors
    dim,           \* one run of setDimensions and getDimensions, see DimInit
    stitch,        \* one call of stitchBlocks, see StitchInit
    plan,          \* one capture plan of rasterize and its chunk loop, see PlanInit
    cancel         \* one Svg2png object and the cancelConversion calls made on it

clientVars == <<cpc, cheld, cgot, creleased, cresult>>
pipeVars == <<conv, pageCloseErrors>>
pureVars == <<dim, stitch, plan, cancel>>
cfgVars == <<maxUsesCfg, statics>>
vars == <<pool, maxUsesCfg, statics, cpc, cheld, cgot, creleased, cresult, conv,
          pageCloseErrors, dim, stitch, plan, cancel>>

(***************************************************************************)
(* The pool.  generic-pool itself is a library; what is modelled of it is  *)
(* what createPuppeteerPool relies on: acquire queues the caller, a        *)
(* resource is created when the waiting callers outnumber the resources    *)
(* that may become theirs and the pool is below max, an idle resource is   *)
(* validated before it is lent (testOnBorrow), an invalid one is destroyed *)
(* and replaced, release makes the resource idle again.                    *)
(***************************************************************************)
NoBrowser == [st |-> "none", USE_COUNT |-> 0]

NoPool ==
    [exists |-> FALSE, draining |-> FALSE,
     browsers |-> [b \in BrowserIds |-> NoBrowser],
     available |-> << >>, waiting |-> << >>,
     creating |-> 0, browserId |-> 0]

Live(p) == {b \in BrowserIds : p.browsers[b].st \in {"idle", "testing", "allocated"}}
Testing(p) == {b \in BrowserIds : p.browsers[b].st = "testing"}
Allocated(p) == {b \in BrowserIds : p.browsers[b].st = "allocated"}

\* how many more browsers the model lets the pool launch
LaunchBudget(p) == MaxBrowsers - (p.browserId + p.creating)

\* generic-pool _ensureMinimum: keep min resources alive unless draining
ensureMinimum(p) ==
    LET missing == PoolMin - (Cardinality(Live(p)) + p.creating)
        n == Max(0, Min(missing, LaunchBudget(p)))
    IN  IF p.draining THEN p ELSE [p EXCEPT !.creating = @ + n]

\* a testOnBorrow that leaves the browsers it validates in the idle list
testOnBorrowKeepsIdle(p, n) ==
    [p EXCEPT !.browsers = [b \in BrowserIds |->
                              IF \E i \in 1..n : p.available[i] = b
                              THEN [@[b] EXCEPT !.st = "testing"] ELSE @[b]]]

\* testOnBorrow: the first n idle browsers leave the idle list to be validated
testOnBorrow(p, n) ==
    [p EXCEPT !.browsers = [b \in BrowserIds |->
                              IF \E i \in 1..n : p.available[i] = b
                              THEN [@[b] EXCEPT !.st = "testing"] ELSE @[b]],
              !.available = SubSeq(@, n + 1, Len(@))]

\* generic-pool _dispatch: create what is missing, validate what is idle
dispatch(p) ==
    LET numWaiting == Len(p.waiting)
        shortfall == numWaiting
                       - (Len(p.available) + Cardinality(Testing(p)) + p.creating)
        capacity == PoolMax - (Cardinality(Live(p)) + p.creating)
        toCreate == Max(0, Min(Min(capacity, shortfall), LaunchBudget(p)))
        toTest == Max(0, Min(Len(p.available), numWaiting - Cardinality(Testing(p))))
    IN  IF numWaiting < 1 THEN p
        ELSE testOnBorrow([p EXCEPT !.creating = @ + toCreate], toTest)

\* genericPool.createPool(factory, genericPoolConfig): starts with min resources
createPuppeteerPool == ensureMinimum([NoPool EXCEPT !.exists = TRUE])

\* factory.create resolved: a browser with USE_COUNT 0 and the next ID
create(p) ==
    LET id == p.browserId + 1
    IN  dispatch([p EXCEPT !.browserId = id,
                           !.creating = @ - 1,
                           !.browsers[id] = [st |-> "idle", USE_COUNT |-> 0],
                           !.available = Append(@, id)])

\* factory.create rejected: generic-pool reports it and dispatches again
createFailed(p) ==
    dispatch([p EXCEPT !.creating = @ - 1])

\* factory.destroy: the browser leaves the pool; a failing close is swallowed
destroy(p, b) ==
    ensureMinimum([p EXCEPT !.browsers[b].st = "destroyed"])

\* config.maxUses || 1
maxUses(cfg) == IF cfg = 0 THEN DefaultMaxUses ELSE cfg

\* a validate that forgets the use count
validateIgnoringUses(p, b, valid, cfg) == valid

\* factory.validate: the caller's validator and the use count
validate(p, b, valid, cfg) ==
    valid /\ (maxUses(cfg) <= 0 \/ p.browsers[b].USE_COUNT < maxUses(cfg))

\* a pool.acquire that does not count the use
acquireWithoutCount(p, b) ==
    [p EXCEPT !.browsers[b] = [st |-> "allocated", USE_COUNT |-> @.USE_COUNT],
              !.waiting = Tail(@)]

\* the wrapped pool.acquire once genericAcquire resolved with browser b
acquire(p, b) ==
    [p EXCEPT !.browsers[b] = [st |-> "allocated", USE_COUNT |-> @.USE_COUNT + 1],
              !.waiting = Tail(@)]

\* pool.acquire called: the caller queues up
enqueue(p, r) == dispatch([p EXCEPT !.waiting = Append(@, r)])

\* a release that counts a use as well
releaseCounting(p, b) ==
    dispatch([p EXCEPT !.browsers[b] = [st |-> "idle", USE_COUNT |-> @.USE_COUNT + 1],
                       !.available = Append(@, b)])

\* pool.release(browser)
release(p, b) ==
    dispatch([p EXCEPT !.browsers[b].st = "idle", !.available = Append(@, b)])

\* a validated browser with nobody waiting goes back to the idle list
backToAvailable(p, b) ==
    [p EXCEPT !.browsers[b].st = "idle", !.available = Append(@, b)]

\* pool.clear(): every idle browser is destroyed
clear(p) ==
    [p EXCEPT !.browsers = [b \in BrowserIds |->
                              IF @[b].st = "idle"
                              THEN [@[b] EXCEPT !.st = "destroyed"] ELSE @[b]],
              !.available = << >>]

(***************************************************************************)
(* One conversion: the fields of an Svg2png object, the position of its    *)
(* convert() call and what the caller and the collaborators have seen.     *)
(***************************************************************************)
Tile == 256                   \* side of a renderer tile, and tiles per capture

\* resolved sizes the loaded document may have: one capture, or two chunks
\* with a short or a full last chunk
DimChoices == {<<100, 65536>>, <<300, 70000>>, <<300, 131072>>}

NewConv ==
    [id |-> 0,                     \* Svg2png.id
     pc |-> "new",                 \* the external call convert() is waiting for
     status |-> "NOT_STARTED",     \* Svg2png.status
     cancellingReason |-> "",      \* Svg2png.cancellingReason
     history |-> << >>,            \* Svg2png.history
     timer |-> "unset",            \* timeoutHandle: unset, armed, fired, cleared
     cancelledAt |-> "",           \* the call in flight when the timer fired
     browser |-> 0,                \* the browser pool.use holds for it (0: none)
     acquired |-> 0,               \* times pool.acquire resolved for it
     released |-> 0,               \* times pool.release was called for it
     cbRan |-> FALSE,              \* rasterize was called
     page |-> "none",              \* its page: none, open, closed
     closeCalls |-> 0,             \* times page.close was called
     ctx |-> "",                   \* the function whose throwIfCancelled runs
     response |-> "",              \* what page.goto gave, see GotoResponses
     width |-> 0, height |-> 0,    \* result of setGetDimensions
     ypos |-> 0, chunks |-> 0,     \* stitchBlocks: the loop's ypos, chunks.length
     captures |-> << >>,           \* the page.screenshot calls made, in order
     encodes |-> 0,                \* times the composite was given to the encoder
     output |-> "",                \* where the bytes to return come from
     result |-> "none",            \* how convert() settled: resolved, rejected
     message |-> << >>,            \* err.message of the rejection
     meta |-> << >>]               \* err.meta of the rejection

\* new Svg2png(config): the r-th object constructed has id r
NewSvg2png(r) == [NewConv EXCEPT !.id = r]

\* Svg2png.log
log(c, msg) == [c EXCEPT !.history = Append(@, msg)]

\* Svg2png.failure: logs the message, the caller rejects with it
failure(c, msg) == log(c, <<"[FAILURE]: ">> \o msg)

\* the else branch of cancelConversion is taken: it throws
\* 'The conversion has already been cancelled'
alreadyCancelled(c) == ~(c.cancellingReason = "" /\ c.status # "CANCELLED")

\* a cancelConversion without its guard: the last reason wins
cancelConversionUnguarded(c, reason) ==
    [c EXCEPT !.cancellingReason = reason, !.status = "CANCELLED"]

\* Svg2png.cancelConversion; the else branch throws out of the timer callback
cancelConversion(c, reason) ==
    IF ~alreadyCancelled(c)
    THEN [c EXCEPT !.cancellingReason = reason, !.status = "CANCELLED"]
    ELSE c

\* a callback that stops the conversion there and then: it rejects and gives
\* the browser back while the call in flight is still running
timeoutCallbackPreemptive(c) ==
    LET errorMsg == IF c.status = "PENDING" THEN "timeout rasterizing SVG"
                    ELSE IF c.status = "NOT_STARTED"
                         THEN "timeout before it could use the browser"
                         ELSE "Developer ERROR: timeout not cancelled"
        c1 == cancelConversion([c EXCEPT !.timer = "fired", !.cancelledAt = c.pc], errorMsg)
    IN  [c1 EXCEPT !.pc = "settled", !.result = "rejected",
                   !.released = IF c.browser # 0 THEN @ + 1 ELSE @,
                   !.message = <<"Conversion was cancelled: ", errorMsg>>]

\* the callback given to setTimeout in convertInBrowser
timeoutCallback(c) ==
    LET errorMsg == IF c.status = "PENDING" THEN "timeout rasterizing SVG"
                    ELSE IF c.status = "NOT_STARTED"
                         THEN "timeout before it could use the browser"
                         ELSE "Developer ERROR: timeout not cancelled"
    IN  cancelConversion([c EXCEPT !.timer = "fired", !.cancelledAt = c.pc], errorMsg)

\* a convertInBrowser that leaves its timer armed when it settles
clearTimeoutForgotten(c) == c

\* clearTimeout(timeoutHandle)
clearTimeout(c) == [c EXCEPT !.timer = IF @ = "armed" THEN "cleared" ELSE @]

\* the error thrown by throwIfCancelled
cancelledMessage(c) == <<"Conversion was cancelled: ", c.cancellingReason>>

\* a catch of pool.use that forgets to release the browser
convertFailedNoRelease(c, msg) ==
    LET c2 == clearTimeout(log(c, <<"clearing timeout due to caught error">>))
        c3 == log([c2 EXCEPT !.status = "FAILED"], <<"SVG2PNG::failure">> \o msg)
    IN  [c3 EXCEPT !.pc = "settled", !.result = "rejected", !.message = msg,
                   !.meta = <<[id |-> c.id, history |-> c3.history]>>]

\* a catch of convert that annotates the error before it logs the failure
convertFailedMetaFirst(c, msg) ==
    LET c1 == IF c.browser # 0 THEN [c EXCEPT !.released = @ + 1] ELSE c
        c2 == clearTimeout(log(c1, <<"clearing timeout due to caught error">>))
        c3 == log([c2 EXCEPT !.status = "FAILED"], <<"SVG2PNG::failure">> \o msg)
    IN  [c3 EXCEPT !.pc = "settled", !.result = "rejected", !.message = msg,
                   !.meta = <<[id |-> c.id, history |-> c2.history]>>]

\* a rejection of pool.use: its catch releases the browser if it has one, the
\* catch of convertInBrowser clears the timer, the catch of convert sets FAILED
convertFailed(c, msg) ==
    LET c1 == IF c.browser # 0 THEN [c EXCEPT !.released = @ + 1] ELSE c
        c2 == clearTimeout(log(c1, <<"clearing timeout due to caught error">>))
        c3 == log([c2 EXCEPT !.status = "FAILED"], <<"SVG2PNG::failure">> \o msg)
    IN  [c3 EXCEPT !.pc = "settled", !.result = "rejected", !.message = msg,
                   !.meta = <<[id |-> c.id, history |-> c3.history]>>]

\* the callback resolved: pool.use releases, convertInBrowser clears the timer
\* and resolves, convert sets DONE
convertSucceeded(c) ==
    LET c1 == [c EXCEPT !.released = @ + 1]
        c2 == clearTimeout(log(c1, <<"clearing timeout">>))
        c3 == log([c2 EXCEPT !.status = "DONE"], <<"SVG2PNG::success">>)
    IN  [c3 EXCEPT !.pc = "settled", !.result = "resolved"]

\* a navigateToSource that does not look at the status of the response
navigateToSourceAnyStatus(resp) ==
    CASE resp = "throw" -> [ok |-> FALSE, logged |-> FALSE, msg |-> <<"goto failed">>]
      [] resp = "null" ->
             [ok |-> FALSE, logged |-> TRUE,
              msg |-> <<"obtained null response from page.goto">>]
      [] OTHER -> [ok |-> TRUE, logged |-> FALSE, msg |-> << >>]

\* navigateToSource(page) once page.goto settled: page.goto threw, or the
\* function rejects through failure() for no response and for a response
\* that is not ok
navigateToSource(resp) ==
    CASE resp = "throw" -> [ok |-> FALSE, logged |-> FALSE, msg |-> <<"goto failed">>]
      [] resp = "null" ->
             [ok |-> FALSE, logged |-> TRUE,
              msg |-> <<"obtained null response from page.goto">>]
      [] resp = "not ok" ->
             [ok |-> FALSE, logged |-> TRUE, msg |-> <<"navigation status: not ok">>]
      [] OTHER -> [ok |-> TRUE, logged |-> FALSE, msg |-> << >>]

\* a catch in the loop of stitchBlocks that logs the failure of a chunk and
\* goes on to the encoder with the chunks it has
thrownInChunkSkipped(c, ctx, msg) ==
    LET prefix == IF ctx = "loadPage" THEN <<"Unknown loadPage error: ">>
                  ELSE IF ctx = "setGetDimensions"
                       THEN <<"unknown setGetDimensions error: ">>
                  ELSE IF ctx = "chunk" THEN <<"chunk collection failure: ">>
                  ELSE IF ctx = "encode" THEN <<"sharp failure: ">>
                  ELSE << >>
    IN  IF ctx = "rasterize" THEN convertFailed(c, msg)
        ELSE IF ctx = "chunk"
        THEN [failure(c, prefix \o msg) EXCEPT !.message = prefix \o msg,
                                               !.pc = "encode", !.encodes = @ + 1]
        ELSE convertFailed(failure(c, prefix \o msg), prefix \o msg)

\* the catch blocks an error thrown in function ctx passes on its way out of
\* rasterize: loadPage and stitchBlocks prefix the message and log the failure
thrownIn(c, ctx, msg) ==
    LET prefix == IF ctx = "loadPage" THEN <<"Unknown loadPage error: ">>
                  ELSE IF ctx = "setGetDimensions"
                       THEN <<"unknown setGetDimensions error: ">>
                  ELSE IF ctx = "chunk" THEN <<"chunk collection failure: ">>
                  ELSE IF ctx = "encode" THEN <<"sharp failure: ">>
                  ELSE << >>
    IN  IF ctx = "rasterize" THEN convertFailed(c, msg)
        ELSE convertFailed(failure(c, prefix \o msg), prefix \o msg)

\* throwIfCancelled(page) when the conversion is cancelled: close the page if
\* it is open, which awaits page.close(), else throw at once
throwCancelled(c, ctx) ==
    IF c.page = "open"
    THEN [c EXCEPT !.pc = "cancelClose", !.ctx = ctx, !.closeCalls = @ + 1]
    ELSE thrownIn(c, ctx, cancelledMessage(c))

\* the capture plan of rasterize
safeOffset(width) == IF width > Tile THEN Tile ELSE 0

blocksPerRow(width) ==
    LET q == (width - safeOffset(width)) \div Tile IN IF q = 0 THEN 1 ELSE q

blocksPerCol(width) == Tile \div blocksPerRow(width)

maxScreenshotHeight(width) == blocksPerCol(width) * Tile

\* a plan that stitches a page exactly as high as one capture may be
singleShotBelow(width, height) == height < maxScreenshotHeight(width)

\* if (height <= maxScreenshotHeight): one capture of the full page
singleShot(width, height) == height <= maxScreenshotHeight(width)

\* Math.ceil(height / maxScreenshotHeight)
totalChunks(height, maxH) == (height + maxH - 1) \div maxH

\* Math.min(height - ypos, maxScreenshotHeight)
clipHeight(height, ypos, maxH) == Min(height - ypos, maxH)

\* convert() settled
Settled(c) == c.pc = "settled"

\* the static methods, the dimension helpers and the stitcher when they are
\* not the subject
NoStatics == [pc |-> "unused"]
NoDim == [pc |-> "unused"]
NoStitch == [pc |-> "unused"]
NoPlan == [pc |-> "unused"]
NoCancel == [pc |-> "unused"]

(***************************************************************************)
(* The bare pool under parallel pool.use(cb) calls, as in                  *)
(* src/test/puppeteer-pool.ts.                                             *)
(***************************************************************************)
MaxUsesChoices == {0, 1, 2}

PoolInit ==
    /\ maxUsesCfg \in MaxUsesChoices
    /\ pool = createPuppeteerPool
    /\ cpc = [c \in Clients |-> "new"]
    /\ cheld = [c \in Clients |-> 0]
    /\ cgot = [c \in Clients |-> 0]
    /\ creleased = [c \in Clients |-> 0]
    /\ cresult = [c \in Clients |-> "none"]
    /\ conv = [r \in Reqs |-> NewSvg2png(r)]
    /\ pageCloseErrors = << >>
    /\ statics = NoStatics
    /\ dim = NoDim
    /\ stitch = NoStitch
    /\ plan = NoPlan
    /\ cancel = NoCancel

\* pool.use(cb) called: acquire rejects at once on a draining pool
UseCall(c) ==
    /\ cpc[c] = "new"
    /\ IF pool.draining
       THEN /\ cpc' = [cpc EXCEPT ![c] = "settled"]
            /\ cresult' = [cresult EXCEPT ![c] = "acquire rejected"]
            /\ UNCHANGED pool
       ELSE /\ cpc' = [cpc EXCEPT ![c] = "acquire"]
            /\ pool' = enqueue(pool, c)
            /\ UNCHANGED cresult
    /\ UNCHANGED <<cfgVars, cheld, cgot, creleased, pipeVars, pureVars>>

\* puppeteer.launch resolved
LaunchDone ==
    /\ pool.creating > 0
    /\ pool' = create(pool)
    /\ UNCHANGED <<cfgVars, clientVars, pipeVars, pureVars>>

\* puppeteer.launch rejected
LaunchFailed ==
    /\ pool.creating > 0
    /\ pool' = createFailed(pool)
    /\ UNCHANGED <<cfgVars, clientVars, pipeVars, pureVars>>

\* factory.validate(b) settled: lend b to the first waiting caller, whose
\* callback starts, or destroy b
ValidateDone(b, valid) ==
    /\ pool.browsers[b].st = "testing"
    /\ IF validate(pool, b, valid, maxUsesCfg)
       THEN IF pool.waiting # << >>
            THEN LET c == Head(pool.waiting)
                 IN  /\ pool' = acquire(pool, b)
                     /\ cpc' = [cpc EXCEPT ![c] = "cb"]
                     /\ cheld' = [cheld EXCEPT ![c] = b]
                     /\ cgot' = [cgot EXCEPT ![c] = @ + 1]
            ELSE /\ pool' = backToAvailable(pool, b)
                 /\ UNCHANGED <<cpc, cheld, cgot>>
       ELSE /\ pool' = dispatch(destroy(pool, b))
            /\ UNCHANGED <<cpc, cheld, cgot>>
    /\ UNCHANGED <<cfgVars, creleased, cresult, pipeVars, pureVars>>

\* the callback's promise settled: pool.use releases the browser
CallbackDone(c, ok) ==
    /\ cpc[c] = "cb"
    /\ pool' = release(pool, cheld[c])
    /\ creleased' = [creleased EXCEPT ![c] = @ + 1]
    /\ cresult' = [cresult EXCEPT ![c] = IF ok THEN "resolved" ELSE "rejected"]
    /\ cpc' = [cpc EXCEPT ![c] = "settled"]
    /\ UNCHANGED <<cfgVars, cheld, cgot, pipeVars, pureVars>>

\* pool.drain() called
Drain ==
    /\ pool.exists
    /\ ~pool.draining
    /\ pool' = [pool EXCEPT !.draining = TRUE]
    /\ UNCHANGED <<cfgVars, clientVars, pipeVars, pureVars>>

\* pool.clear() after drain resolved: nobody waits, nothing is lent
Clear ==
    /\ pool.draining
    /\ pool.waiting = << >>
    /\ Allocated(pool) = {}
    /\ Testing(pool) = {}
    /\ pool.creating = 0
    /\ pool.available # << >>
    /\ pool' = clear(pool)
    /\ UNCHANGED <<cfgVars, clientVars, pipeVars, pureVars>>

PoolNext ==
    \/ \E c \in Clients : UseCall(c)
    \/ LaunchDone
    \/ LaunchFailed
    \/ \E b \in BrowserIds, valid \in BOOLEAN : ValidateDone(b, valid)
    \/ \E c \in Clients, ok \in BOOLEAN : CallbackDone(c, ok)
    \/ Drain
    \/ Clear

SpecPool == PoolInit /\ [][PoolNext]_vars

(***************************************************************************)
(* The bare pool used the way its test uses it: one pool.use after the     *)
(* other, each awaited before the next, with a validator that resolves     *)
(* true.                                                                   *)
(***************************************************************************)
\* pool.use(cb) called once every earlier call has settled
SeqUseCall(c) ==
    /\ \A d \in Clients : cpc[d] \in {"new", "settled"}
    /\ UseCall(c)

SeqNext ==
    \/ \E c \in Clients : SeqUseCall(c)
    \/ LaunchDone
    \/ LaunchFailed
    \/ \E b \in BrowserIds : ValidateDone(b, TRUE)
    \/ \E c \in Clients, ok \in BOOLEAN : CallbackDone(c, ok)

SpecSeq == PoolInit /\ [][SeqNext]_vars

(***************************************************************************)
(* The conversion pipeline: svg2png(config) for each request, on the       *)
(* singleton pool of class Svg2png.                                        *)
(***************************************************************************)
Init ==
    /\ pool = NoPool
    /\ maxUsesCfg = DefaultMaxUses
    /\ conv = [r \in Reqs |-> NewSvg2png(r)]
    /\ pageCloseErrors = << >>
    /\ statics = NoStatics
    /\ cpc = [c \in Clients |-> "new"]
    /\ cheld = [c \in Clients |-> 0]
    /\ cgot = [c \in Clients |-> 0]
    /\ creleased = [c \in Clients |-> 0]
    /\ cresult = [c \in Clients |-> "none"]
    /\ dim = NoDim
    /\ stitch = NoStitch
    /\ plan = NoPlan
    /\ cancel = NoCancel

\* one turn of conversion r leaves its object as c1 and the pool as p; a
\* pool.release counted in the turn gives the browser back to the pool
Turn(r, c1, p) ==
    /\ conv' = [conv EXCEPT ![r] = c1]
    /\ pool' = IF c1.released > conv[r].released THEN release(p, c1.browser) ELSE p
    /\ UNCHANGED <<cfgVars, clientVars, pureVars>>

\* page.screenshot called with a clip, or for the full page
capture(c, full, y, h) ==
    [c EXCEPT !.captures = Append(@, [full |-> full, x |-> 0, y |-> y,
                                      width |-> c.width, height |-> h])]

\* the log entry of one iteration of the loop: processing chunk/totalChunks
processing(chunk, total) == <<"processing ", ToString(chunk), "/", ToString(total)>>

\* a loop that numbers its chunks from 0 in the log
processChunkZeroBased(c) ==
    LET maxH == maxScreenshotHeight(c.width)
        c1 == log(c, processing(c.chunks, totalChunks(c.height, maxH)))
    IN  [capture(c1, FALSE, c.ypos, clipHeight(c.height, c.ypos, maxH))
            EXCEPT !.pc = "chunkScreenshot"]

\* a loop that asks for the next clip as well without awaiting this one
processChunkAhead(c) ==
    LET maxH == maxScreenshotHeight(c.width)
        c1 == log(c, processing(c.chunks + 1, totalChunks(c.height, maxH)))
        c2 == capture(c1, FALSE, c.ypos, clipHeight(c.height, c.ypos, maxH))
    IN  [capture(c2, FALSE, c.ypos + maxH, clipHeight(c.height, c.ypos + maxH, maxH))
            EXCEPT !.pc = "chunkScreenshot"]

\* the head of one iteration of the loop of stitchBlocks, up to page.screenshot
processChunk(c) ==
    LET maxH == maxScreenshotHeight(c.width)
        c1 == log(c, processing(c.chunks + 1, totalChunks(c.height, maxH)))
    IN  [capture(c1, FALSE, c.ypos, clipHeight(c.height, c.ypos, maxH))
            EXCEPT !.pc = "chunkScreenshot"]

\* closePage(page) up to page.close()
closePage(c) == [c EXCEPT !.pc = "close", !.closeCalls = @ + 1]

\* a closePage that lets the failure of page.close() out
closePageRethrows(c, ok) ==
    [c |-> IF ok THEN [c EXCEPT !.page = "closed"] ELSE c,
     errors |-> << >>,
     threw |-> ~ok]

\* closePage(page) once page.close() settled: a failure is caught and the id
\* of the conversion pushed on Svg2png.pageCloseErrors
closePageSettled(c, ok) ==
    [c |-> IF ok THEN [c EXCEPT !.page = "closed"] ELSE c,
     errors |-> IF ok THEN << >> ELSE <<c.id>>,
     threw |-> FALSE]

\* svg2png(config): new Svg2png(config).convert(), up to the pool's acquire
Convert(r) ==
    LET c == conv[r]
        c1 == log([c EXCEPT !.timer = "armed"], <<"setting timeout", "conversionId", c.id>>)
        c2 == log(c1, <<"requesting browser for conversion">>)
        p0 == IF pool.exists THEN pool ELSE createPuppeteerPool
    IN  /\ c.pc = "new"
        /\ IF p0.draining
           THEN Turn(r, convertFailed(c2, <<"pool is draining and cannot accept work">>), p0)
           ELSE Turn(r, [c2 EXCEPT !.pc = "acquire"], enqueue(p0, r))
        /\ UNCHANGED pageCloseErrors

\* one timer shared by the conversions: when it fires every conversion whose
\* timer is armed is cancelled
TimeoutShared(r) ==
    /\ conv[r].timer = "armed"
    /\ conv' = [q \in Reqs |-> IF conv[q].timer = "armed"
                                THEN timeoutCallback(conv[q]) ELSE conv[q]]
    /\ UNCHANGED <<pool, cfgVars, clientVars, pureVars, pageCloseErrors>>

\* the conversion timer fires
Timeout(r) ==
    /\ conv[r].timer = "armed"
    /\ Turn(r, timeoutCallback(conv[r]), pool)
    /\ UNCHANGED pageCloseErrors

\* a rasterize that sets the status to PENDING as soon as it has the browser
BorrowPending(b) ==
    /\ pool.browsers[b].st = "testing"
    /\ IF validate(pool, b, TRUE, maxUsesCfg)
       THEN IF pool.waiting # << >>
            THEN LET r == Head(pool.waiting)
                     c1 == [conv[r] EXCEPT !.browser = b, !.acquired = @ + 1,
                                           !.cbRan = TRUE]
                     c2 == log(log(c1, <<"starting conversion">>), <<"requesting a page">>)
                 IN  IF c1.status = "CANCELLED"
                     THEN Turn(r, throwCancelled(c1, "rasterize"), acquire(pool, b))
                     ELSE Turn(r, [c2 EXCEPT !.pc = "newPage", !.status = "PENDING"],
                               acquire(pool, b))
            ELSE /\ pool' = backToAvailable(pool, b)
                 /\ UNCHANGED <<conv, cfgVars, clientVars, pureVars>>
       ELSE /\ pool' = dispatch(destroy(pool, b))
            /\ UNCHANGED <<conv, cfgVars, clientVars, pureVars>>
    /\ UNCHANGED pageCloseErrors

\* factory.validate(b) settled (the validator of Svg2png resolves true): b is
\* lent to the first waiting conversion, whose rasterize starts, or destroyed
Borrow(b) ==
    /\ pool.browsers[b].st = "testing"
    /\ IF validate(pool, b, TRUE, maxUsesCfg)
       THEN IF pool.waiting # << >>
            THEN LET r == Head(pool.waiting)
                     c1 == [conv[r] EXCEPT !.browser = b, !.acquired = @ + 1,
                                           !.cbRan = TRUE]
                     c2 == log(log(c1, <<"starting conversion">>), <<"requesting a page">>)
                 IN  IF c1.status = "CANCELLED"
                     THEN Turn(r, throwCancelled(c1, "rasterize"), acquire(pool, b))
                     ELSE Turn(r, [c2 EXCEPT !.pc = "newPage"], acquire(pool, b))
            ELSE /\ pool' = backToAvailable(pool, b)
                 /\ UNCHANGED <<conv, cfgVars, clientVars, pureVars>>
       ELSE /\ pool' = dispatch(destroy(pool, b))
            /\ UNCHANGED <<conv, cfgVars, clientVars, pureVars>>
    /\ UNCHANGED pageCloseErrors

\* browser.newPage() settled
NewPageDone(r, ok) ==
    LET c == conv[r]
        c1 == [c EXCEPT !.page = "open"]
        c2 == log([c1 EXCEPT !.status = "PENDING"], <<"navigating to page">>)
    IN  /\ c.pc = "newPage"
        /\ IF ~ok THEN Turn(r, thrownIn(c, "loadPage", <<"newPage failed">>), pool)
           ELSE IF c1.status = "CANCELLED"
                THEN Turn(r, throwCancelled(c1, "loadPage"), pool)
                ELSE Turn(r, [c2 EXCEPT !.pc = "goto"], pool)
        /\ UNCHANGED pageCloseErrors

\* page.close() called by throwIfCancelled settled: the cancellation is thrown
CancelCloseDone(r, ok) ==
    LET c == conv[r]
        d == closePageSettled(c, ok)
    IN  /\ c.pc = "cancelClose"
        /\ pageCloseErrors' = pageCloseErrors \o d.errors
        /\ Turn(r, thrownIn(d.c, c.ctx, IF d.threw THEN <<"close failed">>
                                        ELSE cancelledMessage(c)), pool)

\* page.goto() settled: navigateToSource, the rest of loadPage, and
\* setGetDimensions up to its first page.evaluate; opts tells whether the
\* request has a width, height or scale option (setDimensions returns at
\* once without one)
GotoDone(r, resp, opts) ==
    LET c == [conv[r] EXCEPT !.response = resp]
        nav == navigateToSource(resp)
        c0 == IF nav.logged THEN failure(c, nav.msg) ELSE c
        c1 == log(c, <<"setting dimensions">>)
        c2 == log(log(c1, <<"actions taken: nothing to set">>), <<"getting dimensions">>)
    IN  /\ conv[r].pc = "goto"
        /\ IF ~nav.ok THEN Turn(r, thrownIn(c0, "loadPage", nav.msg), pool)
           ELSE IF c.status = "CANCELLED"
                THEN Turn(r, throwCancelled(c, "loadPage"), pool)
                ELSE IF opts
                     THEN Turn(r, [c1 EXCEPT !.pc = "setDimensions"], pool)
                     ELSE Turn(r, [c2 EXCEPT !.pc = "getDimensions"], pool)
        /\ UNCHANGED pageCloseErrors

\* the page.evaluate of setDimensions settled; a failure is only logged
SetDimensionsDone(r, ok) ==
    LET c == conv[r]
        c1 == log(c, IF ok THEN <<"actions taken">> ELSE <<"failed to set dimensions">>)
        c2 == log(c1, <<"getting dimensions">>)
    IN  /\ c.pc = "setDimensions"
        /\ Turn(r, [c2 EXCEPT !.pc = "getDimensions"], pool)
        /\ UNCHANGED pageCloseErrors

\* the page.evaluate of getDimensions settled, with the rounded size d
GetDimensionsDone(r, ok, d) ==
    LET c == conv[r]
        c1 == [c EXCEPT !.width = d[1], !.height = d[2]]
        c2 == log(c1, <<"setting viewport">>)
        msg == <<"getDimensions: no width/height found">>
    IN  /\ c.pc = "getDimensions"
        /\ IF ~ok THEN Turn(r, thrownIn(c, "setGetDimensions", msg), pool)
           ELSE IF c.status = "CANCELLED"
                THEN Turn(r, throwCancelled(c1, "rasterize"), pool)
                ELSE Turn(r, [c2 EXCEPT !.pc = "setViewport"], pool)
        /\ UNCHANGED pageCloseErrors

\* page.setViewport() settled: the capture plan, up to the first page.screenshot
SetViewportDone(r, ok) ==
    LET c == conv[r]
        c1 == log(c, <<"generating screenshot, no need to stitch">>)
        c2 == log(c, <<"stitching blocks">>)
    IN  /\ c.pc = "setViewport"
        /\ IF ~ok THEN Turn(r, thrownIn(c, "rasterize", <<"setViewport failed">>), pool)
           ELSE IF c.status = "CANCELLED"
                THEN Turn(r, throwCancelled(c, "rasterize"), pool)
                ELSE IF singleShot(c.width, c.height)
                     THEN Turn(r, [capture(c1, TRUE, 0, c.height) EXCEPT !.pc = "screenshot"],
                               pool)
                     ELSE Turn(r, processChunk([c2 EXCEPT !.ypos = 0, !.chunks = 0]), pool)
        /\ UNCHANGED pageCloseErrors

\* the full-page page.screenshot() settled: the page is closed next
ScreenshotDone(r, ok) ==
    LET c == conv[r]
    IN  /\ c.pc = "screenshot"
        /\ IF ~ok THEN Turn(r, thrownIn(c, "rasterize", <<"screenshot failed">>), pool)
           ELSE Turn(r, closePage([c EXCEPT !.output = "screenshot"]), pool)
        /\ UNCHANGED pageCloseErrors

\* the clipped page.screenshot() of a chunk settled
ChunkScreenshotDone(r, ok) ==
    LET c == conv[r]
    IN  /\ c.pc = "chunkScreenshot"
        /\ IF ~ok THEN Turn(r, thrownIn(c, "chunk", <<"screenshot failed">>), pool)
           ELSE IF c.status = "CANCELLED"
                THEN Turn(r, throwCancelled(c, "chunk"), pool)
                ELSE Turn(r, [c EXCEPT !.pc = "chunkDecode"], pool)
        /\ UNCHANGED pageCloseErrors

\* sharp(screenshot).raw().toBuffer() of a chunk settled: the next chunk, or
\* the composite is built and given to the encoder
ChunkDecodeDone(r, ok) ==
    LET c == conv[r]
        c1 == [c EXCEPT !.chunks = @ + 1, !.ypos = @ + maxScreenshotHeight(c.width)]
        c2 == log(c1, <<"waiting on sharp">>)
    IN  /\ c.pc = "chunkDecode"
        /\ IF ~ok THEN Turn(r, thrownIn(c, "chunk", <<"decode failed">>), pool)
           ELSE IF c.status = "CANCELLED"
                THEN Turn(r, throwCancelled(c, "chunk"), pool)
                ELSE IF c1.ypos < c1.height
                     THEN Turn(r, processChunk(c1), pool)
                     ELSE Turn(r, [c2 EXCEPT !.pc = "encode", !.encodes = @ + 1], pool)
        /\ UNCHANGED pageCloseErrors

\* sharp(composite, raw).png().toBuffer() settled: the page is closed next
EncodeDone(r, ok) ==
    LET c == conv[r]
    IN  /\ c.pc = "encode"
        /\ IF ~ok THEN Turn(r, thrownIn(c, "encode", <<"encode failed">>), pool)
           ELSE Turn(r, closePage([c EXCEPT !.output = "encoder"]), pool)
        /\ UNCHANGED pageCloseErrors

\* the page.close() of closePage at the end of rasterize settled: a failure
\* is recorded, the conversion resolves
CloseDone(r, ok) ==
    LET c == conv[r]
        d == closePageSettled(c, ok)
    IN  /\ c.pc = "close"
        /\ pageCloseErrors' = pageCloseErrors \o d.errors
        /\ Turn(r, IF d.threw THEN thrownIn(d.c, "rasterize", <<"close failed">>)
                   ELSE convertSucceeded(d.c), pool)

GotoResponses == {"ok", "null", "not ok", "throw"}

Next ==
    \/ \E r \in Reqs : Convert(r)
    \/ \E r \in Reqs : Timeout(r)
    \/ LaunchDone
    \/ LaunchFailed
    \/ \E b \in BrowserIds : Borrow(b)
    \/ \E r \in Reqs, ok \in BOOLEAN : NewPageDone(r, ok)
    \/ \E r \in Reqs, ok \in BOOLEAN : CancelCloseDone(r, ok)
    \/ \E r \in Reqs, resp \in GotoResponses, opts \in BOOLEAN : GotoDone(r, resp, opts)
    \/ \E r \in Reqs, ok \in BOOLEAN : SetDimensionsDone(r, ok)
    \/ \E r \in Reqs, ok \in BOOLEAN, d \in DimChoices : GetDimensionsDone(r, ok, d)
    \/ \E r \in Reqs, ok \in BOOLEAN : SetViewportDone(r, ok)
    \/ \E r \in Reqs, ok \in BOOLEAN : ScreenshotDone(r, ok)
    \/ \E r \in Reqs, ok \in BOOLEAN : ChunkScreenshotDone(r, ok)
    \/ \E r \in Reqs, ok \in BOOLEAN : ChunkDecodeDone(r, ok)
    \/ \E r \in Reqs, ok \in BOOLEAN : EncodeDone(r, ok)
    \/ \E r \in Reqs, ok \in BOOLEAN : CloseDone(r, ok)
    \/ Drain
    \/ Clear

Spec == Init /\ [][Next]_vars

(***************************************************************************)
(* The dimension helpers of page-utils.ts, run on one document the way     *)
(* setGetDimensions runs them.  A JavaScript number is the exact fraction  *)
(* n/d; the attribute text written by setDimensions and read back by       *)
(* parseFloat is a number and its unit.                                    *)
(***************************************************************************)
Num(n, d) == [n |-> n, d |-> d]
Zero == Num(0, 1)

\* a number is truthy unless it is 0
truthy(x) == x.n # 0

times(a, b) == Num(a.n * b.n, a.d * b.d)
over(a, b) == Num(a.n * b.d, a.d * b.n)

\* Math.round of a fraction: the floor of x + 1/2
round(x) == (2 * x.n + x.d) \div (2 * x.d)

\* an attribute of the svg element: absent, or a number followed by a unit
NoAttr == [present |-> FALSE, v |-> Zero, unit |-> ""]
Attr(v, unit) == [present |-> TRUE, v |-> v, unit |-> unit]

\* (el.getAttribute(name) || '').endsWith('%')
endsWithPercent(a) == a.present /\ a.unit = "%"

\* parseFloat(el.getAttribute(name) || '0'): the leading number, unit dropped
parseFloat(a) == IF a.present THEN a.v ELSE Zero

\* an option of the request: undefined, or a number
Undefined == [given |-> FALSE, v |-> Zero]
Given(v) == [given |-> TRUE, v |-> v]

\* if (width), if (height), if (scale): undefined and 0 are both falsy
opt(o) == o.given /\ truthy(o.v)

\* el.viewBox.animVal of a document without a viewBox attribute is 0 by 0
NoViewBox == [width |-> Zero, height |-> Zero]

\* a page without an svg element
NoSvg == [svg |-> FALSE, width |-> NoAttr, height |-> NoAttr,
          viewBox |-> NoViewBox, clipPath |-> FALSE]

\* a setDimensions that ignores an omitted width or height instead of removing
\* the attribute
setDimensionsKeepsOmitted(e, o) ==
    IF ~opt(o.width) /\ ~opt(o.height) /\ ~opt(o.scale)
    THEN [el |-> e, ok |-> TRUE, actions |-> <<"nothing to set">>]
    ELSE IF ~e.svg
    THEN [el |-> e, ok |-> FALSE, actions |-> << >>]
    ELSE LET e1 == IF opt(o.width) THEN [e EXCEPT !.width = Attr(o.width.v, "px")]
                   ELSE e
             e2 == IF opt(o.height) THEN [e1 EXCEPT !.height = Attr(o.height.v, "px")]
                   ELSE e1
             e3 == IF opt(o.scale)
                   THEN [e2 EXCEPT !.width = Attr(over(e.viewBox.width, o.scale.v), "px"),
                                   !.height = Attr(over(e.viewBox.height, o.scale.v), "px"),
                                   !.clipPath = FALSE]
                   ELSE e2
         IN  [el |-> e3, ok |-> TRUE, actions |-> <<"set">>]

\* a setDimensions that applies the scale before the width and the height
setDimensionsScaleFirst(e, o) ==
    IF ~opt(o.width) /\ ~opt(o.height) /\ ~opt(o.scale)
    THEN [el |-> e, ok |-> TRUE, actions |-> <<"nothing to set">>]
    ELSE IF ~e.svg
    THEN [el |-> e, ok |-> FALSE, actions |-> << >>]
    ELSE LET e1 == IF opt(o.scale)
                   THEN [e EXCEPT !.width = Attr(over(e.viewBox.width, o.scale.v), "px"),
                                  !.height = Attr(over(e.viewBox.height, o.scale.v), "px"),
                                  !.clipPath = FALSE]
                   ELSE [e EXCEPT !.width = NoAttr, !.height = NoAttr]
             e2 == IF opt(o.width) THEN [e1 EXCEPT !.width = Attr(o.width.v, "px")]
                   ELSE e1
             e3 == IF opt(o.height) THEN [e2 EXCEPT !.height = Attr(o.height.v, "px")]
                   ELSE e2
         IN  [el |-> e3, ok |-> TRUE, actions |-> <<"set">>]

\* setDimensions(page, dimensions): the element afterwards, whether the
\* promise resolved, and the actions it resolved with
setDimensions(e, o) ==
    IF ~opt(o.width) /\ ~opt(o.height) /\ ~opt(o.scale)
    THEN [el |-> e, ok |-> TRUE, actions |-> <<"nothing to set">>]
    ELSE IF ~e.svg
    THEN [el |-> e, ok |-> FALSE, actions |-> << >>]
    ELSE LET e1 == [e EXCEPT !.width = IF opt(o.width) THEN Attr(o.width.v, "px")
                                       ELSE NoAttr]
             a1 == IF opt(o.width) THEN <<"set width">> ELSE <<"removed width">>
             e2 == [e1 EXCEPT !.height = IF opt(o.height) THEN Attr(o.height.v, "px")
                                         ELSE NoAttr]
             a2 == IF opt(o.height) THEN <<"set height">> ELSE <<"removed height">>
             scaledWidth == over(e.viewBox.width, o.scale.v)
             scaledHeight == over(e.viewBox.height, o.scale.v)
             e3 == IF opt(o.scale)
                   THEN [e2 EXCEPT !.width = Attr(scaledWidth, "px"),
                                   !.height = Attr(scaledHeight, "px"),
                                   !.clipPath = FALSE]
                   ELSE e2
             a3 == IF opt(o.scale) THEN <<"set scaled dimensions">> ELSE << >>
         IN  [el |-> e3, ok |-> TRUE, actions |-> a1 \o a2 \o a3]

Rejected(msg) == [ok |-> FALSE, error |-> msg]
Resolved(w, h) == [ok |-> TRUE, width |-> w, height |-> h, scale |-> 1]

\* a getDimensions that lets the view box decide the height when it can
getDimensionsViewBoxFirst(e) ==
    IF ~e.svg THEN Rejected("getDimensions: no svg element found")
    ELSE LET width == IF endsWithPercent(e.width) THEN Zero ELSE parseFloat(e.width)
             height == IF endsWithPercent(e.height) THEN Zero ELSE parseFloat(e.height)
             viewBoxWidth == e.viewBox.width
             viewBoxHeight == e.viewBox.height
         IN  IF truthy(width) /\ truthy(viewBoxHeight)
             THEN Resolved(width, over(times(width, viewBoxHeight), viewBoxWidth))
             ELSE IF truthy(width) /\ truthy(height) THEN Resolved(width, height)
             ELSE IF truthy(height) /\ truthy(viewBoxWidth)
             THEN Resolved(over(times(height, viewBoxWidth), viewBoxHeight), height)
             ELSE Rejected("getDimensions: no width/height found")

\* a getDimensions with the aspect ratio of the view box upside down
getDimensionsRatioSwapped(e) ==
    IF ~e.svg THEN Rejected("getDimensions: no svg element found")
    ELSE LET width == IF endsWithPercent(e.width) THEN Zero ELSE parseFloat(e.width)
             height == IF endsWithPercent(e.height) THEN Zero ELSE parseFloat(e.height)
             viewBoxWidth == e.viewBox.width
             viewBoxHeight == e.viewBox.height
         IN  IF truthy(width) /\ truthy(height) THEN Resolved(width, height)
             ELSE IF truthy(width) /\ truthy(viewBoxHeight)
             THEN Resolved(width, over(times(width, viewBoxWidth), viewBoxHeight))
             ELSE IF truthy(height) /\ truthy(viewBoxWidth)
             THEN Resolved(over(times(height, viewBoxHeight), viewBoxWidth), height)
             ELSE Rejected("getDimensions: no width/height found")

\* a getDimensions that falls back on the view box when there is no size
getDimensionsViewBoxFallback(e) ==
    IF ~e.svg THEN Rejected("getDimensions: no svg element found")
    ELSE LET width == IF endsWithPercent(e.width) THEN Zero ELSE parseFloat(e.width)
             height == IF endsWithPercent(e.height) THEN Zero ELSE parseFloat(e.height)
             viewBoxWidth == e.viewBox.width
             viewBoxHeight == e.viewBox.height
         IN  IF truthy(width) /\ truthy(height) THEN Resolved(width, height)
             ELSE IF truthy(width) /\ truthy(viewBoxHeight)
             THEN Resolved(width, over(times(width, viewBoxHeight), viewBoxWidth))
             ELSE IF truthy(height) /\ truthy(viewBoxWidth)
             THEN Resolved(over(times(height, viewBoxWidth), viewBoxHeight), height)
             ELSE IF truthy(viewBoxWidth) /\ truthy(viewBoxHeight)
             THEN Resolved(viewBoxWidth, viewBoxHeight)
             ELSE Rejected("getDimensions: no width/height found")

\* getDimensions(page)
getDimensions(e) ==
    IF ~e.svg THEN Rejected("getDimensions: no svg element found")
    ELSE LET width == IF endsWithPercent(e.width) THEN Zero ELSE parseFloat(e.width)
             height == IF endsWithPercent(e.height) THEN Zero ELSE parseFloat(e.height)
             viewBoxWidth == e.viewBox.width
             viewBoxHeight == e.viewBox.height
         IN  IF truthy(width) /\ truthy(height) THEN Resolved(width, height)
             ELSE IF truthy(width) /\ truthy(viewBoxHeight)
             THEN Resolved(width, over(times(width, viewBoxHeight), viewBoxWidth))
             ELSE IF truthy(height) /\ truthy(viewBoxWidth)
             THEN Resolved(over(times(height, viewBoxWidth), viewBoxHeight), height)
             ELSE Rejected("getDimensions: no width/height found")

\* what setGetDimensions returns for the result of getDimensions
rounded(got) ==
    IF got.ok THEN [ok |-> TRUE, width |-> round(got.width), height |-> round(got.height)]
    ELSE [ok |-> FALSE, error |-> <<"unknown setGetDimensions error: ", got.error>>]

\* the documents and requests the helpers are run on
WidthAttrs ==
    {NoAttr, Attr(Num(200, 1), ""), Attr(Num(300, 1), "px"), Attr(Num(50, 1), "%"),
     Attr(Num(5, 2), "")}
HeightAttrs ==
    {NoAttr, Attr(Num(300, 1), ""), Attr(Num(400, 1), "px"), Attr(Num(100, 1), "%"),
     Attr(Num(7, 2), "")}
ViewBoxes ==
    {NoViewBox, [width |-> Num(100, 1), height |-> Num(200, 1)],
     [width |-> Num(100, 1), height |-> Num(100, 1)],
     [width |-> Num(3, 1), height |-> Num(2, 1)]}
Docs ==
    {NoSvg} \cup
    {[svg |-> TRUE, width |-> w, height |-> h, viewBox |-> vb, clipPath |-> cp] :
        w \in WidthAttrs, h \in HeightAttrs, vb \in ViewBoxes, cp \in BOOLEAN}
WidthOptions == {Undefined, Given(Zero), Given(Num(50, 1)), Given(Num(5, 2))}
HeightOptions == {Undefined, Given(Zero), Given(Num(100, 1)), Given(Num(7, 2))}
ScaleOptions ==
    {Undefined, Given(Zero), Given(Num(2, 1)), Given(Num(3, 1)), Given(Num(8, 1))}

DimInit ==
    /\ dim \in {[pc |-> "loaded", doc |-> d, el |-> d,
                 options |-> [width |-> w, height |-> h, scale |-> sc],
                 set |-> << >>, got |-> << >>, res |-> << >>,
                 viewport |-> << >>] :
                  d \in Docs, w \in WidthOptions, h \in HeightOptions,
                  sc \in ScaleOptions}
    /\ pool = NoPool
    /\ maxUsesCfg = DefaultMaxUses
    /\ conv = [r \in Reqs |-> NewSvg2png(r)]
    /\ pageCloseErrors = << >>
    /\ statics = NoStatics
    /\ cpc = [c \in Clients |-> "new"]
    /\ cheld = [c \in Clients |-> 0]
    /\ cgot = [c \in Clients |-> 0]
    /\ creleased = [c \in Clients |-> 0]
    /\ cresult = [c \in Clients |-> "none"]
    /\ stitch = NoStitch
    /\ plan = NoPlan
    /\ cancel = NoCancel

\* setGetDimensions: await setDimensions(page, this.options)
SetDimensions ==
    /\ dim.pc = "loaded"
    /\ LET r == setDimensions(dim.el, dim.options)
       IN  dim' = [dim EXCEPT !.pc = "set", !.el = r.el, !.set = r]
    /\ UNCHANGED <<pool, cfgVars, clientVars, pipeVars, stitch, plan, cancel>>

\* setGetDimensions: await getDimensions(page), and the rounding
GetDimensions ==
    /\ dim.pc = "set"
    /\ LET got == getDimensions(dim.el)
       IN  dim' = [dim EXCEPT !.pc = "got", !.got = got, !.res = rounded(got)]
    /\ UNCHANGED <<pool, cfgVars, clientVars, pipeVars, stitch, plan, cancel>>

\* rasterize after setGetDimensions: page.setViewport({ width, height }) when
\* it resolved, the catch of rasterize when it rejected
AfterDimensions ==
    /\ dim.pc = "got"
    /\ dim' = IF dim.res.ok
              THEN [dim EXCEPT !.pc = "setViewport",
                               !.viewport = <<[width |-> dim.res.width,
                                               height |-> dim.res.height]>>]
              ELSE [dim EXCEPT !.pc = "rejected"]
    /\ UNCHANGED <<pool, cfgVars, clientVars, pipeVars, stitch, plan, cancel>>

DimNext == SetDimensions \/ GetDimensions \/ AfterDimensions

SpecDim == DimInit /\ [][DimNext]_vars

(***************************************************************************)
(* Svg2png.stitchBlocks(page, width, height, maxScreenshotHeight) on a     *)
(* page whose pixels are known, with the buffers it builds.  rasterize     *)
(* calls it only when height > maxScreenshotHeight.                        *)
(***************************************************************************)
MaxWidth == 2          \* widths 1..MaxWidth
MaxHeight == 5         \* heights up to MaxHeight
MaxChunkHeight == 3    \* maxScreenshotHeight 1..MaxChunkHeight
channels == 4

Seeds == {0, 100}      \* two paintings of the page
Junk == {0, 255}       \* what the memory of Buffer.allocUnsafe may hold

\* the byte of channel ch of the pixel at (x, y) of the page
pixelByte(seed, width, x, y, ch) == (seed + (y * width + x) * channels + ch) % 256

\* the RGBA bytes of the h rows from row y0 on, row by row
rawPixels(seed, width, y0, h) ==
    [k \in 1..(width * h * channels) |->
        LET i == k - 1
            y == y0 + i \div (width * channels)
            x == (i % (width * channels)) \div channels
        IN  pixelByte(seed, width, x, y, i % channels)]

\* page.screenshot({clip: {x: 0, y, width, height}}): a PNG of the clip
screenshot(seed, width, y, height) ==
    [width |-> width, height |-> height, data |-> rawPixels(seed, width, y, height)]

\* sharp(png).raw().toBuffer(): the decoded pixels, width * height * 4 bytes
rawToBuffer(png) == png.data

\* a composite whose chunk i is copied to i times the length of that chunk
compositeByChunkLength(chunks, bufferSize, junk) ==
    [k \in 1..(bufferSize * Len(chunks)) |->
        LET writers == {i \in 1..Len(chunks) :
                           /\ (i - 1) * Len(chunks[i]) < k
                           /\ k <= i * Len(chunks[i])}
        IN  IF writers = {} THEN junk
            ELSE LET i == CHOOSE j \in writers : \A j2 \in writers : j2 <= j
                 IN  chunks[i][k - (i - 1) * Len(chunks[i])]]

\* a composite that is the chunks one after the other, as long as they are
compositeConcat(chunks, bufferSize, junk) ==
    LET RECURSIVE cat(_)
        cat(i) == IF i = 0 THEN << >> ELSE cat(i - 1) \o chunks[i]
    IN  cat(Len(chunks))

\* Buffer.allocUnsafe(bufferSize * chunks.length), then
\* chunks.forEach((s, i) => s.copy(composite, i * bufferSize))
compositeOf(chunks, bufferSize, junk) ==
    [k \in 1..(bufferSize * Len(chunks)) |->
        LET writers == {i \in 1..Len(chunks) :
                           /\ (i - 1) * bufferSize < k
                           /\ k <= (i - 1) * bufferSize + Len(chunks[i])}
        IN  IF writers = {} THEN junk
            ELSE LET i == CHOOSE j \in writers : \A j2 \in writers : j2 <= j
                 IN  chunks[i][k - (i - 1) * bufferSize]]

\* sharp(composite, {raw: {width, height, channels}}).png().toBuffer(): the
\* first width * height * channels bytes are the image
pngOfRaw(composite, width, height) ==
    [width |-> width, height |-> height,
     data |-> SubSeq(composite, 1, width * height * channels)]

StitchInit ==
    /\ stitch \in {[pc |-> "screenshot", seed |-> sd, width |-> w, height |-> h,
                    maxScreenshotHeight |-> m, ypos |-> 0, shot |-> << >>,
                    chunks |-> << >>, composite |-> << >>, result |-> << >>] :
                     sd \in Seeds, w \in 1..MaxWidth,
                     h \in 1..MaxHeight, m \in 1..MaxChunkHeight}
    /\ stitch.height > stitch.maxScreenshotHeight
    /\ pool = NoPool
    /\ maxUsesCfg = DefaultMaxUses
    /\ conv = [r \in Reqs |-> NewSvg2png(r)]
    /\ pageCloseErrors = << >>
    /\ statics = NoStatics
    /\ cpc = [c \in Clients |-> "new"]
    /\ cheld = [c \in Clients |-> 0]
    /\ cgot = [c \in Clients |-> 0]
    /\ creleased = [c \in Clients |-> 0]
    /\ cresult = [c \in Clients |-> "none"]
    /\ dim = NoDim
    /\ plan = NoPlan
    /\ cancel = NoCancel

\* the page.screenshot of a chunk settled
StitchScreenshotDone(ok) ==
    /\ stitch.pc = "screenshot"
    /\ LET t == stitch
           h == clipHeight(t.height, t.ypos, t.maxScreenshotHeight)
       IN  stitch' = IF ok
                     THEN [t EXCEPT !.pc = "decode",
                                    !.shot = screenshot(t.seed, t.width, t.ypos, h)]
                     ELSE [t EXCEPT !.pc = "failed"]
    /\ UNCHANGED <<pool, cfgVars, clientVars, pipeVars, dim, plan, cancel>>

\* the decoding of a chunk settled: the next chunk, or the composite is built
\* and given to the encoder
StitchDecodeDone(ok, junk) ==
    /\ stitch.pc = "decode"
    /\ LET t == stitch
           t1 == [t EXCEPT !.chunks = Append(@, rawToBuffer(t.shot)),
                           !.ypos = @ + t.maxScreenshotHeight]
           bufferSize == t.width * t.maxScreenshotHeight * channels
       IN  stitch' = IF ~ok THEN [t EXCEPT !.pc = "failed"]
                     ELSE IF t1.ypos < t1.height THEN [t1 EXCEPT !.pc = "screenshot"]
                     ELSE [t1 EXCEPT !.pc = "encode",
                                     !.composite = compositeOf(t1.chunks, bufferSize, junk)]
    /\ UNCHANGED <<pool, cfgVars, clientVars, pipeVars, dim, plan, cancel>>

\* the encoding of the composite settled
StitchEncodeDone(ok) ==
    /\ stitch.pc = "encode"
    /\ LET t == stitch
       IN  stitch' = IF ok
                     THEN [t EXCEPT !.pc = "done",
                                    !.result = pngOfRaw(t.composite, t.width, t.height)]
                     ELSE [t EXCEPT !.pc = "failed"]
    /\ UNCHANGED <<pool, cfgVars, clientVars, pipeVars, dim, plan, cancel>>

StitchNext ==
    \/ \E ok \in BOOLEAN : StitchScreenshotDone(ok)
    \/ \E ok \in BOOLEAN, junk \in Junk : StitchDecodeDone(ok, junk)
    \/ \E ok \in BOOLEAN : StitchEncodeDone(ok)

SpecStitch == StitchInit /\ [][StitchNext]_vars

(***************************************************************************)
(* The static side of Svg2png: the stored configuration, setConfiguration, *)
(* getPool (called by every conversion) and closePool, over the bare pool. *)
(* A setting of the configuration is unset or set to a number; the         *)
(* validator and the launch args are the built-in ones ("default"), the    *)
(* caller's, or not given ("undefined").                                   *)
(***************************************************************************)
MaxSetCalls == 2       \* calls of setConfiguration
MaxCloseCalls == 2     \* calls of closePool
NUsers == 2            \* conversions that use the pool

DefaultIdleTimeoutMillis == 5000

Unset == [set |-> FALSE, v |-> 0]
Set(v) == [set |-> TRUE, v |-> v]

\* Svg2png.configuration as the class is loaded
DefaultConfiguration ==
    [maxUses |-> Set(DefaultMaxUses), validator |-> "default", args |-> "default",
     min |-> Set(PoolMin), max |-> Set(PoolMax),
     idleTimeoutMillis |-> Set(DefaultIdleTimeoutMillis),
     acquireTimeoutMillis |-> Unset]

\* the objects given to setConfiguration
NoOptions ==
    [maxUses |-> Unset, validator |-> "undefined", args |-> "undefined",
     min |-> Unset, max |-> Unset, idleTimeoutMillis |-> Unset,
     acquireTimeoutMillis |-> Unset]

ConfigOptions ==
    {NoOptions,
     [NoOptions EXCEPT !.maxUses = Set(2), !.validator = "caller"],
     [NoOptions EXCEPT !.min = Set(2), !.max = Set(4), !.idleTimeoutMillis = Set(1000)],
     [NoOptions EXCEPT !.args = "caller", !.acquireTimeoutMillis = Set(1000)]}

\* a setConfiguration that looks at whether the pool is still open
setConfigurationUnlessOpen(p, configuration, options) ==
    IF ~p.exists \/ p.draining
    THEN [configuration |->
              [maxUses |-> Set(DefaultMaxUses), validator |-> "default",
               args |-> "default", min |-> Set(PoolMin), max |-> Set(PoolMax),
               idleTimeoutMillis |-> Set(DefaultIdleTimeoutMillis),
               acquireTimeoutMillis |-> options.acquireTimeoutMillis],
          threw |-> FALSE]
    ELSE [configuration |-> configuration, threw |-> TRUE]

\* Svg2png.setConfiguration(options): each group spreads the options and then
\* sets maxUses, validator, args, min, max and idleTimeoutMillis itself
setConfiguration(p, configuration, options) ==
    IF ~p.exists
    THEN [configuration |->
              [maxUses |-> Set(DefaultMaxUses), validator |-> "default",
               args |-> "default", min |-> Set(PoolMin), max |-> Set(PoolMax),
               idleTimeoutMillis |-> Set(DefaultIdleTimeoutMillis),
               acquireTimeoutMillis |-> options.acquireTimeoutMillis],
          threw |-> FALSE]
    ELSE [configuration |-> configuration, threw |-> TRUE]

\* a pool.drain() that rejects when the pool is draining already
drainOnce(p) == [pool |-> [p EXCEPT !.draining = TRUE], ok |-> ~p.draining]

\* pool.drain(): no acquire is accepted any more; the promise does not reject
drain(p) == [pool |-> [p EXCEPT !.draining = TRUE], ok |-> TRUE]

\* pool.drain() resolves when no caller waits and every browser is returned
drained(p) == p.waiting = << >> /\ Allocated(p) = {} /\ Testing(p) = {}

Users == 1..NUsers
CloseCalls == 1..MaxCloseCalls

NewClose == [pc |-> "new", pool |-> FALSE, after |-> 0]

ConfigInit ==
    /\ statics = [configuration |-> DefaultConfiguration,
                  poolConfig |-> << >>,
                  setCalls |-> << >>,
                  closePool |-> [k \in CloseCalls |-> NewClose]]
    /\ pool = NoPool
    /\ maxUsesCfg = DefaultMaxUses
    /\ cpc = [c \in Clients |-> "new"]
    /\ cheld = [c \in Clients |-> 0]
    /\ cgot = [c \in Clients |-> 0]
    /\ creleased = [c \in Clients |-> 0]
    /\ cresult = [c \in Clients |-> "none"]
    /\ conv = [r \in Reqs |-> NewSvg2png(r)]
    /\ pageCloseErrors = << >>
    /\ dim = NoDim
    /\ stitch = NoStitch
    /\ plan = NoPlan
    /\ cancel = NoCancel

\* Svg2png.setConfiguration(options) called
SetConfiguration(options) ==
    /\ Len(statics.setCalls) < MaxSetCalls
    /\ LET r == setConfiguration(pool, statics.configuration, options)
       IN  statics' = [statics EXCEPT
                          !.configuration = r.configuration,
                          !.setCalls = Append(@, [options |-> options,
                                                  threw |-> r.threw,
                                                  pool |-> pool.exists,
                                                  closed |-> pool.draining])]
    /\ UNCHANGED <<pool, maxUsesCfg, clientVars, pipeVars, pureVars>>

\* a getPool that makes a new pool when the one it has was closed
GetPoolUseReopening(c) ==
    /\ cpc[c] = "new"
    /\ LET created == ~pool.exists \/ pool.draining
           p0 == IF created THEN createPuppeteerPool ELSE pool
           cfg == statics.configuration
       IN  /\ statics' = IF created THEN [statics EXCEPT !.poolConfig = <<cfg>>]
                         ELSE statics
           /\ maxUsesCfg' = IF created
                            THEN (IF cfg.maxUses.set THEN cfg.maxUses.v ELSE 0)
                            ELSE maxUsesCfg
           /\ cpc' = [cpc EXCEPT ![c] = "acquire"]
           /\ pool' = enqueue(p0, c)
           /\ UNCHANGED cresult
    /\ UNCHANGED <<cheld, cgot, creleased, pipeVars, pureVars>>

\* a conversion reaches Svg2png.getPool().use(cb): getPool creates the pool
\* from the stored configuration the first time, then as UseCall
GetPoolUse(c) ==
    /\ cpc[c] = "new"
    /\ LET created == ~pool.exists
           p0 == IF created THEN createPuppeteerPool ELSE pool
           cfg == statics.configuration
       IN  /\ statics' = IF created THEN [statics EXCEPT !.poolConfig = <<cfg>>]
                         ELSE statics
           /\ maxUsesCfg' = IF created
                            THEN (IF cfg.maxUses.set THEN cfg.maxUses.v ELSE 0)
                            ELSE maxUsesCfg
           /\ IF p0.draining
              THEN /\ cpc' = [cpc EXCEPT ![c] = "settled"]
                   /\ cresult' = [cresult EXCEPT ![c] = "acquire rejected"]
                   /\ pool' = p0
              ELSE /\ cpc' = [cpc EXCEPT ![c] = "acquire"]
                   /\ pool' = enqueue(p0, c)
                   /\ UNCHANGED cresult
    /\ UNCHANGED <<cheld, cgot, creleased, pipeVars, pureVars>>

\* Svg2png.closePool() called: returns at once without a pool, else drains
ClosePool(k) ==
    /\ statics.closePool[k].pc = "new"
    /\ k > 1 => statics.closePool[k - 1].pc # "new"
    /\ LET d == drain(pool)
           call == [statics.closePool[k] EXCEPT
                       !.pool = pool.exists,
                       !.after = Cardinality({j \in CloseCalls :
                                     statics.closePool[j].pc = "resolved"})]
       IN  IF ~pool.exists
           THEN /\ statics' = [statics EXCEPT
                                  !.closePool[k] = [call EXCEPT !.pc = "resolved"]]
                /\ UNCHANGED pool
           ELSE /\ pool' = d.pool
                /\ statics' = [statics EXCEPT
                                  !.closePool[k] =
                                      [call EXCEPT !.pc = IF d.ok THEN "drain"
                                                          ELSE "rejected"]]
    /\ UNCHANGED <<maxUsesCfg, clientVars, pipeVars, pureVars>>

\* pool.drain() resolved: closePool calls pool.clear(), which waits for the
\* launches in progress
DrainDone(k) ==
    /\ statics.closePool[k].pc = "drain"
    /\ drained(pool)
    /\ statics' = [statics EXCEPT !.closePool[k].pc = "clear"]
    /\ UNCHANGED <<pool, maxUsesCfg, clientVars, pipeVars, pureVars>>

\* pool.clear() resolved: the idle browsers are destroyed, closePool resolves
ClearDone(k) ==
    /\ statics.closePool[k].pc = "clear"
    /\ pool.creating = 0
    /\ pool' = clear(pool)
    /\ statics' = [statics EXCEPT !.closePool[k].pc = "resolved"]
    /\ UNCHANGED <<maxUsesCfg, clientVars, pipeVars, pureVars>>

ConfigNext ==
    \/ \E options \in ConfigOptions : SetConfiguration(options)
    \/ \E c \in Users : GetPoolUse(c)
    \/ LaunchDone
    \/ LaunchFailed
    \/ \E b \in BrowserIds, valid \in BOOLEAN : ValidateDone(b, valid)
    \/ \E c \in Users, ok \in BOOLEAN : CallbackDone(c, ok)
    \/ \E k \in CloseCalls : ClosePool(k)
    \/ \E k \in CloseCalls : DrainDone(k)
    \/ \E k \in CloseCalls : ClearDone(k)

SpecConfig == ConfigInit /\ [][ConfigNext]_vars

(***************************************************************************)
(* The capture plan on its own: rasterize from the computation of the plan *)
(* on, and the loop of stitchBlocks, for one resolved width and height.    *)
(* The widths lie on both sides of every point where the plan changes: one *)
(* tile, two tiles, the first width with two blocks per row, and the width *)
(* from which on blocksPerRow exceeds the 256 tiles of a capture.          *)
(***************************************************************************)

MaxCaptures == 4

PlanWidths == {1, 255, 256, 257, 511, 512, 768, 1024, 66047, 66048, 70000}
PlanHeights == {1, 256, 257, 600, 65536, 65537, 131072, 140000}

PlanInit ==
    /\ plan \in {[pc |-> "rasterize", width |-> w, height |-> h,
                  maxScreenshotHeight |-> 0, ypos |-> 0, chunks |-> 0,
                  captures |-> << >>] : w \in PlanWidths, h \in PlanHeights}
    /\ pool = NoPool
    /\ maxUsesCfg = DefaultMaxUses
    /\ conv = [r \in Reqs |-> NewSvg2png(r)]
    /\ pageCloseErrors = << >>
    /\ statics = NoStatics
    /\ cpc = [c \in Clients |-> "new"]
    /\ cheld = [c \in Clients |-> 0]
    /\ cgot = [c \in Clients |-> 0]
    /\ creleased = [c \in Clients |-> 0]
    /\ cresult = [c \in Clients |-> "none"]
    /\ dim = NoDim
    /\ stitch = NoStitch
    /\ cancel = NoCancel

\* the head of one iteration of the loop of stitchBlocks, up to page.screenshot
planChunk(t) ==
    [capture(t, FALSE, t.ypos, clipHeight(t.height, t.ypos, t.maxScreenshotHeight))
        EXCEPT !.pc = "chunkScreenshot"]

\* rasterize after setViewport: the plan, then the full-page screenshot or
\* the first chunk of stitchBlocks
PlanRasterize ==
    /\ plan.pc = "rasterize"
    /\ LET t == [plan EXCEPT !.maxScreenshotHeight = maxScreenshotHeight(plan.width)]
       IN  plan' = IF singleShot(t.width, t.height)
                   THEN [capture(t, TRUE, 0, t.height) EXCEPT !.pc = "screenshot"]
                   ELSE planChunk([t EXCEPT !.ypos = 0, !.chunks = 0])
    /\ UNCHANGED <<pool, cfgVars, clientVars, pipeVars, dim, stitch, cancel>>

\* the full-page page.screenshot() settled
PlanScreenshotDone(ok) ==
    /\ plan.pc = "screenshot"
    /\ plan' = [plan EXCEPT !.pc = IF ok THEN "done" ELSE "failed"]
    /\ UNCHANGED <<pool, cfgVars, clientVars, pipeVars, dim, stitch, cancel>>

\* the clipped page.screenshot() of a chunk settled
PlanChunkScreenshotDone(ok) ==
    /\ plan.pc = "chunkScreenshot"
    /\ plan' = [plan EXCEPT !.pc = IF ok THEN "chunkDecode" ELSE "failed"]
    /\ UNCHANGED <<pool, cfgVars, clientVars, pipeVars, dim, stitch, cancel>>

\* the decoding of a chunk settled: chunks.push, ypos += maxScreenshotHeight,
\* then the next iteration if ypos < height, else the composite is encoded.
\* The model follows the loop for MaxCaptures iterations.
PlanChunkDecodeDone(ok) ==
    /\ plan.pc = "chunkDecode"
    /\ LET t == [plan EXCEPT !.chunks = @ + 1, !.ypos = @ + plan.maxScreenshotHeight]
       IN  IF ~ok THEN plan' = [plan EXCEPT !.pc = "failed"]
           ELSE IF t.ypos < t.height
                THEN /\ Len(t.captures) < MaxCaptures
                     /\ plan' = planChunk(t)
                ELSE plan' = [t EXCEPT !.pc = "encode"]
    /\ UNCHANGED <<pool, cfgVars, clientVars, pipeVars, dim, stitch, cancel>>

\* the encoding of the composite settled
PlanEncodeDone(ok) ==
    /\ plan.pc = "encode"
    /\ plan' = [plan EXCEPT !.pc = IF ok THEN "done" ELSE "failed"]
    /\ UNCHANGED <<pool, cfgVars, clientVars, pipeVars, dim, stitch, cancel>>

PlanNext ==
    \/ PlanRasterize
    \/ \E ok \in BOOLEAN : PlanScreenshotDone(ok)
    \/ \E ok \in BOOLEAN : PlanChunkScreenshotDone(ok)
    \/ \E ok \in BOOLEAN : PlanChunkDecodeDone(ok)
    \/ \E ok \in BOOLEAN : PlanEncodeDone(ok)

SpecPlan == PlanInit /\ [][PlanNext]_vars

(***************************************************************************)
(* cancelConversion on its own: one Svg2png object, in a status and with a *)
(* cancelling reason a conversion can have, and the calls made on it.      *)
(***************************************************************************)

MaxCancelCalls == 3

\* the reasons the timer callback gives
Reasons ==
    {"timeout rasterizing SVG", "timeout before it could use the browser",
     "Developer ERROR: timeout not cancelled"}

\* status and cancellingReason of a conversion: not cancelled, cancelled by
\* its timer before or after it had a page, and settled after either
CancelObjects ==
    {<<"NOT_STARTED", "">>, <<"PENDING", "">>, <<"DONE", "">>, <<"FAILED", "">>,
     <<"CANCELLED", "timeout rasterizing SVG">>,
     <<"CANCELLED", "timeout before it could use the browser">>,
     <<"DONE", "timeout rasterizing SVG">>,
     <<"FAILED", "timeout rasterizing SVG">>,
     <<"FAILED", "timeout before it could use the browser">>}

CancelInit ==
    /\ cancel \in {[pc |-> "object", status |-> o[1], cancellingReason |-> o[2],
                    calls |-> << >>] : o \in CancelObjects}
    /\ pool = NoPool
    /\ maxUsesCfg = DefaultMaxUses
    /\ conv = [r \in Reqs |-> NewSvg2png(r)]
    /\ pageCloseErrors = << >>
    /\ statics = NoStatics
    /\ cpc = [c \in Clients |-> "new"]
    /\ cheld = [c \in Clients |-> 0]
    /\ cgot = [c \in Clients |-> 0]
    /\ creleased = [c \in Clients |-> 0]
    /\ cresult = [c \in Clients |-> "none"]
    /\ dim = NoDim
    /\ stitch = NoStitch
    /\ plan = NoPlan

\* this.cancelConversion(reason): what it leaves in the object, and whether
\* it threw
CancelConversion(reason) ==
    /\ cancel.pc = "object"
    /\ Len(cancel.calls) < MaxCancelCalls
    /\ cancel' = [cancelConversion(cancel, reason) EXCEPT
                     !.calls = Append(@, [reason |-> reason,
                                          threw |-> alreadyCancelled(cancel)])]
    /\ UNCHANGED <<pool, cfgVars, clientVars, pipeVars, dim, stitch, plan>>

CancelNext == \E reason \in Reasons : CancelConversion(reason)

SpecCancel == CancelInit /\ [][CancelNext]_vars

(***************************************************************************)
(* Properties of the bare pool.                                            *)
(***************************************************************************)

\* C1: with validation on borrow the pool never lends a browser whose use
\* count has reached maxUses, so no use count ever exceeds maxUses, under any
\* interleaving of parallel pool.use calls; with maxUses = 1 the callers that
\* were lent a browser were lent pairwise different ones.
C1_NeverLentAtMaxUses ==
    /\ \A b \in BrowserIds : pool.browsers[b].USE_COUNT <= maxUses(maxUsesCfg)
    /\ maxUses(maxUsesCfg) = 1 =>
          \A c1, c2 \in Clients :
              c1 # c2 /\ cgot[c1] > 0 /\ cgot[c2] > 0 => cheld[c1] # cheld[c2]

\* all callers were lent a browser under maxUses = 1, two of them in parallel
C1_Witness ==
    /\ maxUses(maxUsesCfg) = 1
    /\ \A c \in Clients : cgot[c] = 1
    /\ \E c1, c2 \in Clients : c1 # c2 /\ cpc[c1] = "cb" /\ cpc[c2] = "cb"

(***************************************************************************)
(* Properties of the conversion pipeline.                                  *)
(***************************************************************************)
Terminal == {"DONE", "FAILED", "CANCELLED"}

\* err.message is the error thrown by throwIfCancelled, prefixed or not
IsCancellation(c) ==
    /\ Len(c.message) >= 2
    /\ SubSeq(c.message, Len(c.message) - 1, Len(c.message)) = cancelledMessage(c)

\* C2: the page opened for a request is closed exactly once before convert
\* settles, on every exit path.
C2_PageClosedExactlyOnce ==
    \A r \in Reqs :
        /\ conv[r].closeCalls <= 1
        /\ Settled(conv[r]) /\ conv[r].page # "none" => conv[r].closeCalls = 1

\* C3: a browser acquired through pool.use is released exactly once, however
\* the callback ends; when acquire fails the callback is not run and nothing
\* is released.
C3_ReleasedExactlyOnce ==
    \A r \in Reqs :
        LET c == conv[r]
        IN  /\ c.acquired <= 1
            /\ c.released <= c.acquired
            /\ c.cbRan <=> c.acquired = 1
            /\ Settled(c) <=> c.result # "none"
            /\ Settled(c) => c.released = c.acquired
            /\ c.acquired = 1 /\ c.released = 0 =>
                   pool.browsers[c.browser].st = "allocated"
            /\ c.released = 1 => Settled(c)

\* one conversion was cancelled and rejected after its browser was released,
\* another was refused by the draining pool without a browser
C3_Witness ==
    /\ \E r \in Reqs :
          /\ Settled(conv[r]) /\ conv[r].released = 1
          /\ conv[r].result = "rejected" /\ IsCancellation(conv[r])
    /\ \E r \in Reqs :
          /\ Settled(conv[r]) /\ conv[r].acquired = 0 /\ conv[r].result = "rejected"

\* C4: once the timer has cancelled a request, convert never resolves with
\* image bytes.
C4_CancelledNeverResolves ==
    \A r \in Reqs : conv[r].cancellingReason # "" => conv[r].result # "resolved"

\* C5: a request whose timer fires before the pool's acquire completes ends
\* in status CANCELLED, is never PENDING, and no page is opened for it.
C5_CancelledBeforeAcquire ==
    \A r \in Reqs :
        conv[r].cancelledAt = "acquire" =>
            conv[r].status = "CANCELLED" /\ conv[r].page = "none"

\* C6: a request cancelled while a chunk capture is in flight closes its page
\* and rejects with the cancellation error, not with a capture failure.
C6_CancelledMidCapture ==
    \A r \in Reqs :
        conv[r].cancelledAt = "chunkScreenshot" /\ Settled(conv[r]) =>
            /\ conv[r].closeCalls = 1
            /\ conv[r].result = "rejected"
            /\ IsCancellation(conv[r])

\* C7: DONE, FAILED and CANCELLED are terminal: no step changes a status that
\* is one of them.
C7_TerminalStatus ==
    [][\A r \in Reqs : conv[r].status \in Terminal =>
                          conv'[r].status = conv[r].status]_vars

(***************************************************************************)
(* Properties of the dimension helpers.                                    *)
(***************************************************************************)

\* the attribute carries a size: present, not a percentage, above 0
Sized(a) == a.present /\ a.unit # "%" /\ a.v.n > 0

HasViewBox(e) == truthy(e.viewBox.width) /\ truthy(e.viewBox.height)

\* C9: when after the overrides both a non-percent width and a non-percent
\* height are present and the request has no scale, the size is
\* (round(width), round(height)) and the scale is 1, with or without a view
\* box and whatever its aspect ratio.
C9_WidthAndHeightUsed ==
    dim.pc = "got" /\ dim.el.svg /\ ~dim.options.scale.given
                   /\ Sized(dim.el.width) /\ Sized(dim.el.height) =>
        /\ dim.got.ok /\ dim.got.scale = 1
        /\ dim.res = [ok |-> TRUE, width |-> round(dim.el.width.v),
                      height |-> round(dim.el.height.v)]

\* intrinsic 200 by 300, no view box, no options: 200 by 300
C9_Witness ==
    /\ dim.pc = "got"
    /\ dim.doc.width = Attr(Num(200, 1), "") /\ dim.doc.height = Attr(Num(300, 1), "")
    /\ dim.doc.viewBox = NoViewBox
    /\ dim.options = [width |-> Undefined, height |-> Undefined, scale |-> Undefined]
    /\ dim.res = [ok |-> TRUE, width |-> 200, height |-> 300]

\* C10: when after the overrides exactly one of width and height is present
\* and the document has a view box, the other one follows the aspect ratio of
\* the view box (height = width * viewBoxHeight / viewBoxWidth, width =
\* height * viewBoxWidth / viewBoxHeight) and both are rounded.
C10_InferredFromViewBox ==
    dim.pc = "got" /\ dim.el.svg /\ ~dim.options.scale.given /\ HasViewBox(dim.el) =>
        LET w == dim.el.width.v
            h == dim.el.height.v
            vb == dim.el.viewBox
        IN  /\ Sized(dim.el.width) /\ ~Sized(dim.el.height) =>
                 dim.res = [ok |-> TRUE, width |-> round(w),
                            height |-> round(over(times(w, vb.height), vb.width))]
            /\ Sized(dim.el.height) /\ ~Sized(dim.el.width) =>
                 dim.res = [ok |-> TRUE, height |-> round(h),
                            width |-> round(over(times(h, vb.width), vb.height))]

\* no intrinsic size, view box 100 by 200, width option 50: 50 by 100
C10_Witness ==
    /\ dim.pc = "got"
    /\ dim.doc.svg /\ dim.doc.width = NoAttr /\ dim.doc.height = NoAttr
    /\ dim.doc.viewBox = [width |-> Num(100, 1), height |-> Num(200, 1)]
    /\ dim.options = [width |-> Given(Num(50, 1)), height |-> Undefined,
                      scale |-> Undefined]
    /\ dim.res = [ok |-> TRUE, width |-> 50, height |-> 100]

(***************************************************************************)
(* Properties of the stitcher.                                             *)
(***************************************************************************)

\* C8: stitching is lossless: the first width * height * 4 bytes of the
\* composite given to the encoder are the raw pixels of the same page
\* captured in one shot, that is the decoded chunks in order, chunk i
\* starting at byte i * width * maxScreenshotHeight * 4; so is the image
\* the encoder returns.
C8_StitchingLossless ==
    stitch.pc \in {"encode", "done"} =>
        LET t == stitch
            n == t.width * t.height * channels
            bufferSize == t.width * t.maxScreenshotHeight * channels
            oneShot == rawToBuffer(screenshot(t.seed, t.width, 0, t.height))
        IN  /\ Len(t.composite) >= n
            /\ SubSeq(t.composite, 1, n) = oneShot
            /\ \A i \in 1..Len(t.chunks) :
                   SubSeq(t.composite, (i - 1) * bufferSize + 1,
                          (i - 1) * bufferSize + Len(t.chunks[i])) = t.chunks[i]
            /\ t.pc = "done" => t.result.data = oneShot

\* three chunks of a height that maxScreenshotHeight does not divide
C8_Witness ==
    /\ stitch.pc = "done"
    /\ Len(stitch.chunks) = 3
    /\ stitch.height % stitch.maxScreenshotHeight # 0
    /\ stitch.width > 1

(***************************************************************************)
(* More properties of the dimension helpers.                               *)
(***************************************************************************)
\* the request carries a width, a height or a scale that setDimensions acts on
AnyOverride(o) == opt(o.width) \/ opt(o.height) \/ opt(o.scale)

\* the size the svg element declares once percentages count as absent and the
\* width and height of the request have replaced or removed the attributes
Declared(a, o, any) ==
    IF opt(o) THEN TRUE ELSE IF any THEN FALSE ELSE Sized(a)

NoSizeFound == <<"unknown setGetDimensions error: ", "getDimensions: no width/height found">>

\* C11: when, percentages counting as absent and the overrides applied,
\* neither a width nor a height is present and no scale is given, the
\* resolution rejects with the error of an undetermined size, view box or
\* not, and the conversion goes on to no viewport and no capture.
C11_NoSizeRejected ==
    LET o == dim.options
        any == AnyOverride(o)
    IN  dim.pc \in {"got", "setViewport", "rejected"} /\ dim.doc.svg /\ ~opt(o.scale)
           /\ ~Declared(dim.doc.width, o.width, any)
           /\ ~Declared(dim.doc.height, o.height, any) =>
            /\ dim.res = [ok |-> FALSE, error |-> NoSizeFound]
            /\ dim.pc # "setViewport" /\ dim.viewport = << >>

\* a document with a view box of 100 by 200, a width of 50% and no height,
\* converted without options, was rejected
C11_Witness ==
    /\ dim.pc = "rejected"
    /\ dim.doc.svg /\ dim.doc.width = Attr(Num(50, 1), "%") /\ dim.doc.height = NoAttr
    /\ dim.doc.viewBox = [width |-> Num(100, 1), height |-> Num(200, 1)]
    /\ dim.options = [width |-> Undefined, height |-> Undefined, scale |-> Undefined]
    /\ dim.res = [ok |-> FALSE, error |-> NoSizeFound]

\* C12: with a scale other than 0 and a view box the size is
\* (round(viewBoxWidth / scale), round(viewBoxHeight / scale)), whatever the
\* width and height of the document and of the request.
C12_ScaleTakesPrecedence ==
    dim.pc = "got" /\ dim.doc.svg /\ opt(dim.options.scale) /\ HasViewBox(dim.doc) =>
        LET vb == dim.doc.viewBox
            scale == dim.options.scale.v
        IN  dim.res = [ok |-> TRUE, width |-> round(over(vb.width, scale)),
                       height |-> round(over(vb.height, scale))]

\* a view box of 100 by 100 and a scale of 2 give 50 by 50, although the
\* document says 300 by 400 and the request a width of 50
C12_Witness ==
    /\ dim.pc = "got"
    /\ dim.doc.width = Attr(Num(300, 1), "px") /\ dim.doc.height = Attr(Num(400, 1), "px")
    /\ dim.doc.viewBox = [width |-> Num(100, 1), height |-> Num(100, 1)]
    /\ dim.options = [width |-> Given(Num(50, 1)), height |-> Undefined,
                      scale |-> Given(Num(2, 1))]
    /\ dim.res = [ok |-> TRUE, width |-> 50, height |-> 50]

\* C13: when the request carries a width, a height or a scale, a width
\* (height) it does not carry removes the width (height) attribute of the
\* document, so that only the scale can give it a value again; when the
\* request carries none of them the attributes are left as they were.
C13_OmittedOverrideRemoves ==
    dim.pc \in {"set", "got"} /\ dim.doc.svg =>
        LET o == dim.options
            vb == dim.doc.viewBox
        IN  /\ ~AnyOverride(o) => dim.el = dim.doc
            /\ AnyOverride(o) /\ ~opt(o.width) =>
                  dim.el.width = IF opt(o.scale) THEN Attr(over(vb.width, o.scale.v), "px")
                                 ELSE NoAttr
            /\ AnyOverride(o) /\ ~opt(o.height) =>
                  dim.el.height = IF opt(o.scale) THEN Attr(over(vb.height, o.scale.v), "px")
                                  ELSE NoAttr

\* a document of 300 by 400 with a view box of 100 by 100, asked for a
\* height of 100 only, is 100 by 100
C13_Witness ==
    /\ dim.pc = "got"
    /\ dim.doc.width = Attr(Num(300, 1), "px") /\ dim.doc.height = Attr(Num(400, 1), "px")
    /\ dim.doc.viewBox = [width |-> Num(100, 1), height |-> Num(100, 1)]
    /\ dim.options = [width |-> Undefined, height |-> Given(Num(100, 1)),
                      scale |-> Undefined]
    /\ dim.el.width = NoAttr
    /\ dim.res = [ok |-> TRUE, width |-> 100, height |-> 100]

\* C14: a request whose scale is exactly 0 is rejected with an error.
C14_ScaleZeroRejected ==
    dim.pc \in {"got", "setViewport", "rejected"}
        /\ dim.options.scale.given /\ ~truthy(dim.options.scale.v) =>
            ~dim.res.ok /\ dim.pc # "setViewport"

(***************************************************************************)
(* Properties of the static methods.                                       *)
(***************************************************************************)

\* C15: closing the pool is idempotent: no call of closePool rejects, the
\* second or a later one included, and a call made while no pool exists
\* resolves at once and leaves no pool.
C15_ClosePoolIdempotent ==
    /\ [](\A k \in CloseCalls : statics.closePool[k].pc # "rejected")
    /\ [][\A k \in CloseCalls :
             statics.closePool[k].pc = "new" /\ statics'.closePool[k].pc # "new"
                 /\ ~pool.exists =>
                    statics'.closePool[k].pc = "resolved" /\ pool' = NoPool]_vars

\* after a conversion, a second closePool called once the first one had
\* resolved has resolved too
C15_Witness ==
    /\ statics.closePool[1].pc = "resolved" /\ statics.closePool[1].pool
    /\ statics.closePool[2].pc = "resolved" /\ statics.closePool[2].after = 1
    /\ \E c \in Users : cresult[c] = "resolved"

\* C16: once getPool has created the pool, every setConfiguration throws and
\* leaves the stored configuration and the pool as they are, also after
\* closePool.
C16_ConfigurationFrozen ==
    /\ [](\A i \in 1..Len(statics.setCalls) :
             statics.setCalls[i].pool => statics.setCalls[i].threw)
    /\ [][pool.exists =>
             /\ pool'.exists
             /\ statics'.configuration = statics.configuration
             /\ statics'.poolConfig = statics.poolConfig
             /\ maxUsesCfg' = maxUsesCfg
             /\ statics'.setCalls # statics.setCalls => pool' = pool]_vars

\* setConfiguration threw after closePool had resolved
C16_Witness ==
    /\ statics.closePool[1].pc = "resolved" /\ statics.closePool[1].pool
    /\ \E i \in 1..Len(statics.setCalls) :
          /\ statics.setCalls[i].closed /\ statics.setCalls[i].threw
          /\ statics.setCalls[i].options # NoOptions
    /\ statics.poolConfig = <<statics.configuration>>

\* what a configuration has for the settings the options give
Honours(cfg, options) ==
    /\ options.maxUses.set => cfg.maxUses = options.maxUses
    /\ options.validator # "undefined" => cfg.validator = options.validator
    /\ options.args # "undefined" => cfg.args = options.args
    /\ options.min.set => cfg.min = options.min
    /\ options.max.set => cfg.max = options.max
    /\ options.idleTimeoutMillis.set => cfg.idleTimeoutMillis = options.idleTimeoutMillis
    /\ options.acquireTimeoutMillis.set =>
           cfg.acquireTimeoutMillis = options.acquireTimeoutMillis

\* C17: the pool is created with what the last setConfiguration before the
\* first conversion gave: the caller's maxUses, validator, min, max,
\* idleTimeoutMillis and launch args.
C17_ConfigurationHonoured ==
    statics.poolConfig # << >> /\ statics.setCalls # << >> =>
        LET accepted == {i \in 1..Len(statics.setCalls) : ~statics.setCalls[i].threw}
        IN  accepted # {} =>
               LET last == CHOOSE i \in accepted : \A j \in accepted : j <= i
                   options == statics.setCalls[last].options
               IN  /\ Honours(statics.poolConfig[1], options)
                   /\ options.maxUses.set => maxUsesCfg = options.maxUses.v

(***************************************************************************)
(* More properties of the conversion pipeline.                             *)
(***************************************************************************)
IsPrefix(s, t) == Len(s) <= Len(t) /\ SubSeq(t, 1, Len(s)) = s

\* C18: when convert rejects, the error carries the id of the request and
\* its whole history, whose last entry is the failure record and whose first
\* entry names the request; the history of a request only ever grows at its
\* end.
C18_ErrorCarriesHistory ==
    /\ [](\A r \in Reqs :
             conv[r].result = "rejected" =>
                 /\ conv[r].meta = <<[id |-> r, history |-> conv[r].history]>>
                 /\ conv[r].history[Len(conv[r].history)] =
                        <<"SVG2PNG::failure">> \o conv[r].message
                 /\ conv[r].history[1] = <<"setting timeout", "conversionId", r>>)
    /\ [][\A r \in Reqs : IsPrefix(conv[r].history, conv'[r].history)]_vars

\* both conversions were rejected, one of them after a chunk was captured
C18_Witness ==
    /\ \A r \in Reqs : conv[r].result = "rejected" /\ conv[r].meta # << >>
    /\ \E r \in Reqs : Len(conv[r].captures) > 0 /\ Len(conv[r].history) > 6

\* a capture or a decode of a chunk failed, or found the request cancelled
ChunkFailed(c) == c.message # << >> /\ c.message[1] = "chunk collection failure: "

\* C19: no partial image: when the capture or the decode of a chunk fails,
\* convert rejects, the encoder is never given anything and no chunk is
\* captured after the one that failed.
C19_NoPartialImage ==
    /\ [](\A r \in Reqs :
             ChunkFailed(conv[r]) =>
                 /\ Settled(conv[r]) /\ conv[r].result = "rejected"
                 /\ conv[r].encodes = 0
                 /\ Len(conv[r].captures) = conv[r].chunks + 1)
    /\ [][\A r \in Reqs :
             ChunkFailed(conv[r]) =>
                 /\ conv'[r].captures = conv[r].captures
                 /\ conv'[r].encodes = conv[r].encodes
                 /\ conv'[r].result = conv[r].result]_vars

\* the decode of the second chunk failed when the first chunk was in hand
C19_Witness ==
    \E r \in Reqs :
        /\ conv[r].message = <<"chunk collection failure: ", "decode failed">>
        /\ conv[r].chunks = 1 /\ Len(conv[r].captures) = 2
        /\ conv[r].result = "rejected"

HasEntry(history, entry) == \E i \in 1..Len(history) : history[i] = entry

\* C20: when page.goto gives no response, or a response whose status is not
\* ok, convert rejects with the navigation error, and the request gets no
\* dimensions, no viewport and no capture.
C20_NavigationFailure ==
    \A r \in Reqs :
        conv[r].response \in {"null", "not ok"} =>
            /\ Settled(conv[r]) /\ conv[r].result = "rejected"
            /\ conv[r].message \in
                   {<<"Unknown loadPage error: ", "obtained null response from page.goto">>,
                    <<"Unknown loadPage error: ", "navigation status: not ok">>}
            /\ conv[r].message[2] = "navigation status: not ok"
                   <=> conv[r].response = "not ok"
            /\ ~HasEntry(conv[r].history, <<"setting dimensions">>)
            /\ ~HasEntry(conv[r].history, <<"getting dimensions">>)
            /\ conv[r].width = 0 /\ conv[r].height = 0
            /\ conv[r].captures = << >> /\ conv[r].encodes = 0

\* one request got no response, the other a response that is not ok
C20_Witness ==
    /\ \E r \in Reqs : conv[r].response = "null" /\ conv[r].result = "rejected"
    /\ \E r \in Reqs : conv[r].response = "not ok" /\ conv[r].result = "rejected"

\* how many times id is in the list getPageClosingFailures returns
Occurrences(list, id) == Cardinality({i \in 1..Len(list) : list[i] = id})

\* C21: a page.close() that fails does not change how convert settles: after
\* a capture it resolves, during a cancellation it rejects with the
\* cancellation error, whether the page closed or not; and the id of the
\* request is in the list of getPageClosingFailures, once, exactly when its
\* page.close() failed.
C21_CloseFailureRecorded ==
    \A r \in Reqs :
        LET c == conv[r]
            closeFailed == c.closeCalls = 1 /\ c.page = "open"
                             /\ c.pc \notin {"close", "cancelClose"}
        IN  /\ Occurrences(pageCloseErrors, r) = IF closeFailed THEN 1 ELSE 0
            /\ Settled(c) /\ c.closeCalls = 1 =>
                  IF c.ctx = "" THEN c.result = "resolved"
                  ELSE c.result = "rejected" /\ IsCancellation(c)

\* the page of one request failed to close after its capture, the page of the
\* other failed to close when it was cancelled
C21_Witness ==
    /\ Len(pageCloseErrors) = 2
    /\ \E r \in Reqs : conv[r].page = "open" /\ conv[r].result = "resolved"
    /\ \E r \in Reqs : conv[r].page = "open" /\ conv[r].result = "rejected"
                         /\ IsCancellation(conv[r]) /\ conv[r].closeCalls = 1

(***************************************************************************)
(* Properties of the bare pool used sequentially.                          *)
(***************************************************************************)

\* C22: with maxUses = k and one pool.use after the other, the n-th use runs
\* with browser number ceil(n / k): a browser serves k uses in a row, fails
\* validation on the next borrow and is destroyed, and a newly launched
\* browser is lent in its place.
C22_RetiredAfterMaxUses ==
    LET k == maxUses(maxUsesCfg)
        n == Cardinality({d \in Clients : cpc[d] # "new"})
    IN  \A c \in Clients :
            cpc[c] = "cb" =>
                /\ cheld[c] = ((n - 1) \div k) + 1
                /\ pool.browsers[cheld[c]].USE_COUNT = ((n - 1) % k) + 1
                /\ \A b \in 1..(cheld[c] - 1) :
                       /\ pool.browsers[b].st = "destroyed"
                       /\ pool.browsers[b].USE_COUNT = k

\* maxUses = 2: the first browser has served two uses and is destroyed, the
\* third use runs with the second browser
C22_Witness ==
    /\ maxUses(maxUsesCfg) = 2
    /\ \E c \in Clients : cpc[c] = "cb" /\ cheld[c] = 2
    /\ Cardinality({d \in Clients : cpc[d] = "settled" /\ cheld[d] = 1}) = 2
    /\ pool.browsers[1] = [st |-> "destroyed", USE_COUNT |-> 2]

(***************************************************************************)
(* More properties of the bare pool.                                       *)
(***************************************************************************)

\* C23: no two callers hold the same browser at the same time: from the
\* moment a browser is lent to a caller until that caller's release, it is
\* on loan to that caller and no other callback runs with it.
C23_NeverShared ==
    /\ \A c1, c2 \in Clients :
           c1 # c2 /\ cpc[c1] = "cb" /\ cpc[c2] = "cb" => cheld[c1] # cheld[c2]
    /\ \A c \in Clients :
           cpc[c] = "cb" => pool.browsers[cheld[c]].st = "allocated"
    /\ Cardinality(Allocated(pool)) = Cardinality({c \in Clients : cpc[c] = "cb"})

\* with maxUses = 2 a browser that has served one caller, who released it, is
\* with a second caller while a third caller holds another browser
C23_Witness ==
    /\ maxUses(maxUsesCfg) = 2
    /\ \E c1, c2, c3 \in Clients :
          /\ cpc[c1] = "settled" /\ cpc[c2] = "cb" /\ cpc[c3] = "cb"
          /\ cheld[c1] = cheld[c2] /\ cheld[c3] # cheld[c2]

(***************************************************************************)
(* Properties of the capture plan in the pipeline.                         *)
(***************************************************************************)

\* C24: when the height is at most maxScreenshotHeight the page is captured
\* once, in full, nothing is clipped, stitched or encoded again, and the
\* bytes of that capture are the result; otherwise no capture is of the full
\* page and a conversion that resolves has made ceil(height /
\* maxScreenshotHeight) >= 2 clipped captures and returns what the encoder
\* made of them.
C24_CapturePlan ==
    \A r \in Reqs :
        LET c == conv[r]
            maxH == maxScreenshotHeight(c.width)
            n == Len(c.captures)
        IN  IF c.width = 0 THEN n = 0 /\ c.encodes = 0
            ELSE IF c.height <= maxH
            THEN /\ n <= 1 /\ c.encodes = 0
                 /\ \A i \in 1..n : c.captures[i].full
                 /\ c.result = "resolved" => n = 1 /\ c.output = "screenshot"
            ELSE /\ \A i \in 1..n : ~c.captures[i].full
                 /\ n <= totalChunks(c.height, maxH)
                 /\ c.encodes = 1 => n = totalChunks(c.height, maxH)
                 /\ c.result = "resolved" =>
                        /\ n = totalChunks(c.height, maxH) /\ n >= 2
                        /\ c.encodes = 1 /\ c.output = "encoder"

\* a page exactly as high as one capture may be was captured in one shot, a
\* higher one in two chunks
C24_Witness ==
    /\ \E r \in Reqs :
          /\ conv[r].result = "resolved"
          /\ conv[r].height = maxScreenshotHeight(conv[r].width)
          /\ Len(conv[r].captures) = 1
    /\ \E r \in Reqs :
          /\ conv[r].result = "resolved"
          /\ conv[r].height > maxScreenshotHeight(conv[r].width)
          /\ Len(conv[r].captures) = 2


(***************************************************************************)
(* Properties of the capture plan on its own.                              *)
(***************************************************************************)

\* the plan was made and the page did not fit one capture
Stitched(t) == t.pc # "rasterize" /\ ~singleShot(t.width, t.height)

RECURSIVE SumHeights(_)
SumHeights(captures) ==
    IF captures = << >> THEN 0
    ELSE Head(captures).height + SumHeights(Tail(captures))

\* C25: the clips of a stitched page partition [0, height): clip k (0-based)
\* is at offset k * maxScreenshotHeight, at x = 0 and of the full width, every
\* clip that does not reach the bottom is exactly maxScreenshotHeight high,
\* the last one is 1..maxScreenshotHeight high, and once all chunks are
\* decoded there are ceil(height / maxScreenshotHeight) clips whose heights
\* sum to height.
C25_ClipsPartition ==
    LET t == plan
        maxH == t.maxScreenshotHeight
        n == Len(t.captures)
    IN  Stitched(t) =>
          /\ \A i \in 1..n :
                LET clip == t.captures[i]
                IN  /\ clip.x = 0 /\ clip.width = t.width
                    /\ clip.y = (i - 1) * maxH
                    /\ clip.y < t.height
                    /\ clip.height >= 1 /\ clip.height <= maxH
                    /\ clip.y + clip.height <= t.height
                    /\ clip.y + clip.height < t.height => clip.height = maxH
          /\ t.pc \in {"encode", "done"} =>
                /\ maxH > 0
                /\ n = totalChunks(t.height, maxH)
                /\ SumHeights(t.captures) = t.height

\* C29: no capture covers more than 256 tiles of 256 x 256 pixels:
\* ceil(width / 256) * ceil(captureHeight / 256) <= 256 for the full-page
\* capture and for every clip.
C29_WithinTileLimit ==
    \A i \in 1..Len(plan.captures) :
        LET clip == plan.captures[i]
        IN  ((clip.width + Tile - 1) \div Tile) * ((clip.height + Tile - 1) \div Tile)
                <= Tile

\* C30: for every positive width and height maxScreenshotHeight is a positive
\* multiple of 256, every iteration of the chunk loop moves the offset down,
\* and the loop is left after exactly ceil(height / maxScreenshotHeight)
\* captures when every capture and decode succeeded.
C30_ChunkLoopTerminates ==
    LET t == plan
        maxH == t.maxScreenshotHeight
        n == Len(t.captures)
    IN  t.pc # "rasterize" =>
          /\ maxH > 0 /\ maxH % Tile = 0
          /\ Stitched(t) =>
                /\ \A i, j \in 1..n : i < j => t.captures[i].y < t.captures[j].y
                /\ n <= totalChunks(t.height, maxH)
                /\ t.pc \in {"encode", "done"} => n = totalChunks(t.height, maxH)


(***************************************************************************)
(* Properties of the chunk loop in the pipeline.                           *)
(***************************************************************************)

\* C26: within one conversion the clips are asked for one at a time, top to
\* bottom: when clip k+1 has been asked for, the captures and decodes of the
\* clips 1..k have completed and their buffers are the k chunks pushed so
\* far; while a capture or decode is in flight it is that of clip chunks+1,
\* and when the composite is encoded every clip asked for was decoded.
C26_ChunksSequential ==
    \A r \in Reqs :
        LET c == conv[r]
            maxH == maxScreenshotHeight(c.width)
            n == Len(c.captures)
        IN  (c.width > 0 /\ ~singleShot(c.width, c.height)) =>
              /\ c.chunks <= n /\ n <= c.chunks + 1
              /\ c.pc \in {"chunkScreenshot", "chunkDecode"} => n = c.chunks + 1
              /\ c.encodes = 1 => n = c.chunks
              /\ \A i \in 1..n : c.captures[i].y = (i - 1) * maxH
              /\ c.chunks > 0 => c.ypos = c.chunks * maxH

\* the second clip is in flight after the first one was captured and decoded
C26_Witness ==
    \E r \in Reqs :
        /\ conv[r].pc = "chunkScreenshot"
        /\ Len(conv[r].captures) = 2 /\ conv[r].chunks = 1
        /\ conv[r].captures[2].y > conv[r].captures[1].y


(***************************************************************************)
(* Properties of the composite buffer.                                     *)
(***************************************************************************)

\* C27 as claimed: the buffer given to the encoder has exactly
\* width * height * 4 bytes, the last chunk is not padded to a full chunk.
C27_ExactSize ==
    stitch.pc \in {"encode", "done"} =>
        Len(stitch.composite) = stitch.width * stitch.height * channels

\* C27 as amended: the buffer given to the encoder has one slot of
\* width * maxScreenshotHeight * 4 bytes for each chunk; the last chunk has
\* only its real length, width * (height - (n - 1) * maxScreenshotHeight) * 4
\* bytes, and is copied to the start of its slot, so the pixels end at byte
\* width * height * 4 and the rest of the last slot, which is what the buffer
\* has more than width * height * 4 bytes, is padding the encoder does not
\* read: the image it returns has width * height * 4 bytes of pixels. The
\* buffer has exactly width * height * 4 bytes if and only if
\* maxScreenshotHeight divides the height.
C27_CompositeSize ==
    stitch.pc \in {"encode", "done"} =>
        LET t == stitch
            n == Len(t.chunks)
            bufferSize == t.width * t.maxScreenshotHeight * channels
            exact == t.width * t.height * channels
        IN  /\ n = totalChunks(t.height, t.maxScreenshotHeight)
            /\ Len(t.composite) = bufferSize * n
            /\ \A i \in 1..(n - 1) : Len(t.chunks[i]) = bufferSize
            /\ Len(t.chunks[n]) =
                   t.width * (t.height - (n - 1) * t.maxScreenshotHeight) * channels
            /\ (n - 1) * bufferSize + Len(t.chunks[n]) = exact
            /\ Len(t.composite) - exact =
                   t.width * (n * t.maxScreenshotHeight - t.height) * channels
            /\ Len(t.composite) = exact <=> t.height % t.maxScreenshotHeight = 0
            /\ t.pc = "done" => Len(t.result.data) = exact

\* two chunks, the second shorter than the first, were encoded: the buffer
\* was longer than the image
C27_Witness ==
    /\ stitch.pc = "done"
    /\ Len(stitch.chunks) = 2
    /\ Len(stitch.chunks[2]) < Len(stitch.chunks[1])
    /\ Len(stitch.composite) > Len(stitch.result.data)


(***************************************************************************)
(* Properties of the error of a failed chunk.                              *)
(***************************************************************************)

\* page.screenshot or the decode of a chunk threw
CaptureOrDecodeFailed(c) ==
    /\ ChunkFailed(c)
    /\ c.message[2] \in {"screenshot failed", "decode failed"}

\* the index of the last processing entry of a history, 0 if there is none
LastProcessing(history) ==
    LET P == {i \in 1..Len(history) : history[i][1] = "processing "}
    IN  IF P = {} THEN 0 ELSE CHOOSE i \in P : \A j \in P : j <= i

CallFailed(c) ==
    /\ c.message # << >>
    /\ c.message[Len(c.message)] \in
           {"newPage failed", "goto failed", "obtained null response from page.goto",
            "navigation status: not ok", "getDimensions: no width/height found",
            "setViewport failed",
            "screenshot failed", "decode failed", "encode failed", "close failed"}

\* C31: the timer is armed before the request waits on the pool, and a
\* request whose timer has fired and whose external calls all returned ends
\* rejected with the cancellation reason, also when the timer fired while it
\* was waiting for a browser.
C31_DeadlineTerminates ==
    \A r \in Reqs :
        LET c == conv[r]
        IN  /\ c.pc # "new" => c.timer # "unset"
            /\ c.pc = "acquire" => c.timer \in {"armed", "fired"}
            /\ Settled(c) /\ c.timer = "fired" /\ ~CallFailed(c) =>
                   /\ c.result = "rejected"
                   /\ IsCancellation(c)
                   /\ c.message[Len(c.message)] = c.cancellingReason


\* the timer of conversion a fires in this step
Fires(a) == conv[a].timer = "armed" /\ conv'[a].timer = "fired"

\* C32: cancellation is per request: the step in which the timer of request
\* a fires changes nothing of any other request b, neither its status, its
\* cancelling reason nor its history, and nothing of the pool; a request is
\* cancelled, and rejects with a cancellation, only when its own timer fired.
C32_CancellationPerRequest ==
    /\ [][\A a \in Reqs : Fires(a) =>
             /\ conv'[a].status = "CANCELLED"
             /\ pool' = pool
             /\ \A b \in Reqs \ {a} :
                    /\ conv'[b].status = conv[b].status
                    /\ conv'[b].cancellingReason = conv[b].cancellingReason
                    /\ conv'[b].history = conv[b].history
                    /\ conv'[b] = conv[b]]_vars
    /\ [](\A b \in Reqs :
             /\ conv[b].cancellingReason # "" => conv[b].timer = "fired"
             /\ conv[b].status = "CANCELLED" => conv[b].timer = "fired"
             /\ conv[b].result = "rejected" /\ IsCancellation(conv[b]) =>
                    conv[b].timer = "fired")

\* the timer of one request fired during its navigation and the request was
\* rejected for it, while the other, whose timer is still armed, goes on
\* with its own navigation
C32_Witness ==
    \E a, b \in Reqs :
        /\ a # b
        /\ conv[a].cancelledAt = "goto" /\ conv[a].result = "rejected"
        /\ conv[b].pc = "goto" /\ conv[b].status = "PENDING"
        /\ conv[b].timer = "armed" /\ conv[b].cancellingReason = ""


\* the external calls a conversion awaits
ExternalCalls ==
    {"acquire", "newPage", "goto", "setDimensions", "getDimensions", "setViewport",
     "screenshot", "chunkScreenshot", "chunkDecode", "encode", "close", "cancelClose"}

\* C33: cancellation is cooperative: the step in which the timer of a
\* request fires while an external call is in flight only records CANCELLED
\* and the reason; the request still waits for the same call, its page is
\* not closed, its browser is not released and the pool is untouched. Its
\* page is closed and its browser released only in a step in which a call
\* it was waiting for returned.
C33_CancellationCooperative ==
    /\ [][\A r \in Reqs : Fires(r) =>
             /\ conv[r].pc \in ExternalCalls
             /\ conv'[r] = [conv[r] EXCEPT !.status = "CANCELLED",
                                           !.cancellingReason = conv'[r].cancellingReason,
                                           !.timer = "fired",
                                           !.cancelledAt = conv[r].pc]
             /\ conv'[r].cancellingReason # ""
             /\ pool' = pool]_vars
    /\ [][\A r \in Reqs :
             (\/ conv'[r].closeCalls > conv[r].closeCalls
              \/ conv'[r].released > conv[r].released
              \/ conv'[r].page # conv[r].page
              \/ conv[r].timer # "unset" /\ conv'[r].result # conv[r].result) =>
                 /\ ~Fires(r)
                 /\ conv'[r].timer \in {conv[r].timer, "cleared"}
                 /\ conv[r].pc \in ExternalCalls
                 /\ conv'[r].pc # conv[r].pc \/ conv'[r].history # conv[r].history]_vars

\* the timer fired during the navigation, which is still in flight: the
\* request is CANCELLED, its page open and its browser still allocated to it
C33_Witness ==
    \E r \in Reqs :
        /\ conv[r].timer = "fired" /\ conv[r].status = "CANCELLED"
        /\ conv[r].pc = "goto" /\ conv[r].cancelledAt = "goto"
        /\ conv[r].page = "open" /\ conv[r].closeCalls = 0 /\ conv[r].released = 0
        /\ conv[r].browser # 0
        /\ pool.browsers[conv[r].browser].st = "allocated"


(***************************************************************************)
(* More properties of the bare pool.                                       *)
(***************************************************************************)

\* browser b is lent to a caller in this step: pool.acquire resolves with it
Lent(b) == pool.browsers[b].st # "allocated" /\ pool'.browsers[b].st = "allocated"

RECURSIVE SumGot(_, _)
SumGot(S, b) ==
    IF S = {} THEN 0
    ELSE LET c == CHOOSE x \in S : TRUE
         IN  (IF cheld[c] = b THEN cgot[c] ELSE 0) + SumGot(S \ {c}, b)

\* C34: the use count of a browser is 0 when it is created and grows by
\* exactly 1 in every step in which pool.acquire resolves with it, and in no
\* other: not when it is released, validated, put back or destroyed, not when
\* an acquire is refused, however the callback ended. It is at all times the
\* number of times pool.acquire resolved with the browser.
C34_UseCountPerAcquire ==
    /\ [][\A b \in BrowserIds :
             LET old == pool.browsers[b]
                 new == pool'.browsers[b]
             IN  /\ old.st = "none" /\ new.st # "none" => new.USE_COUNT = 0
                 /\ Lent(b) => new.USE_COUNT = old.USE_COUNT + 1
                 /\ ~Lent(b) => new.USE_COUNT = old.USE_COUNT
                 /\ Lent(b) => \E c \in Clients :
                                  /\ cgot'[c] = cgot[c] + 1 /\ cheld'[c] = b
                                  /\ \A d \in Clients \ {c} : cgot'[d] = cgot[d]
                 /\ ~(\E x \in BrowserIds : Lent(x)) => cgot' = cgot]_vars
    /\ [](\A b \in BrowserIds :
             /\ pool.browsers[b].st = "none" => pool.browsers[b].USE_COUNT = 0
             /\ pool.browsers[b].USE_COUNT = SumGot(Clients, b))

\* a browser that was lent twice and given back twice, once by a callback
\* that failed, is idle with a use count of 2
C34_Witness ==
    \E b \in BrowserIds :
        /\ pool.browsers[b].USE_COUNT = 2 /\ pool.browsers[b].st = "idle"
        /\ \E c, d \in Clients :
              /\ c # d /\ cheld[c] = b /\ cheld[d] = b
              /\ cresult[c] = "rejected" /\ cresult[d] = "resolved"


(***************************************************************************)
(* Properties of cancelConversion.                                         *)
(***************************************************************************)

\* C35: cancelling is guarded: a cancel of a request that was not cancelled
\* before does not throw, sets the status CANCELLED and records its reason;
\* a cancel of a request that was cancelled before throws and leaves the
\* status and the recorded reason as they were.
C35_CancelGuarded ==
    [][cancel' # cancel =>
          LET call == cancel'.calls[Len(cancel'.calls)]
              before == cancel.cancellingReason # "" \/ cancel.status = "CANCELLED"
          IN  IF before
              THEN /\ call.threw
                   /\ cancel'.cancellingReason = cancel.cancellingReason
                   /\ cancel'.status = cancel.status
              ELSE /\ ~call.threw
                   /\ cancel'.status = "CANCELLED"
                   /\ cancel'.cancellingReason = call.reason]_vars

\* a request that was PENDING or NOT_STARTED was cancelled, then cancelled
\* again with another reason: the second call threw and the first reason
\* stands
C35_Witness ==
    /\ cancel.pc = "object"
    /\ Len(cancel.calls) = 2
    /\ ~cancel.calls[1].threw /\ cancel.calls[2].threw
    /\ cancel.calls[1].reason # cancel.calls[2].reason
    /\ cancel.cancellingReason = cancel.calls[1].reason
    /\ cancel.status = "CANCELLED"


(***************************************************************************)
(* Properties of the status of a conversion.                               *)
(***************************************************************************)

\* the conversion holds a browser of the pool
Holds(c) == c.browser # 0 /\ c.released < c.acquired

\* C36 as claimed: while the status is NOT_STARTED the request holds no
\* browser and has no page; the status becomes PENDING only once a page was
\* opened, and at most once.
C36_NotStartedHoldsNothing ==
    \A r \in Reqs :
        conv[r].status = "NOT_STARTED" => ~Holds(conv[r]) /\ conv[r].page = "none"

\* C36 as amended: while the status is NOT_STARTED the request has no page,
\* and it holds a browser only while browser.newPage() is in flight; the
\* status becomes PENDING only in the step in which browser.newPage()
\* resolved and the page is open, from NOT_STARTED, and never again once it
\* has been left.
C36_PendingAfterPage ==
    /\ [](\A r \in Reqs :
             conv[r].status = "NOT_STARTED" =>
                 /\ conv[r].page = "none"
                 /\ conv[r].pc \in {"new", "acquire", "newPage"}
                 /\ Holds(conv[r]) <=> conv[r].pc = "newPage")
    /\ [][\A r \in Reqs :
             /\ (conv'[r].status = "PENDING" /\ conv[r].status # "PENDING") =>
                    /\ conv[r].status = "NOT_STARTED"
                    /\ conv[r].pc = "newPage" /\ Holds(conv[r])
                    /\ conv[r].page = "none" /\ conv'[r].page = "open"
             /\ conv[r].status # "NOT_STARTED" => conv'[r].status # "NOT_STARTED"]_vars
    /\ [](\A r \in Reqs : conv[r].status = "PENDING" => conv[r].page # "none")

\* a request that was lent a browser waits for its page with the status
\* NOT_STARTED while the other request, whose page is open, is PENDING
C36_Witness ==
    \E a, b \in Reqs :
        /\ conv[a].status = "NOT_STARTED" /\ conv[a].pc = "newPage" /\ Holds(conv[a])
        /\ conv[b].status = "PENDING" /\ conv[b].page = "open"


(***************************************************************************)
(* More properties of the static methods.                                  *)
(***************************************************************************)

\* C37: the pool is created lazily and once: there is no pool until a
\* conversion asks for a browser; setConfiguration and closePool never
\* create one; the step that creates it is the first conversion's getPool;
\* from then on the pool stays the one it is: no later conversion,
\* setConfiguration or closePool replaces it, a pool that was closed stays
\* closed, and the configuration it was made from is recorded once.
C37_PoolLazyAndSingle ==
    /\ [](/\ pool.exists <=> \E c \in Users : cpc[c] # "new"
          /\ ~pool.exists => pool = NoPool /\ statics.poolConfig = << >>
          /\ pool.exists => Len(statics.poolConfig) = 1)
    /\ [][/\ (statics'.setCalls # statics.setCalls
              \/ \E k \in CloseCalls : statics.closePool[k].pc = "new"
                                       /\ statics'.closePool[k].pc # "new") =>
                 pool'.exists = pool.exists
          /\ (~pool.exists /\ pool'.exists) =>
                 /\ \E c \in Users : cpc[c] = "new" /\ cpc'[c] # "new"
                 /\ statics'.setCalls = statics.setCalls
                 /\ statics'.closePool = statics.closePool
                 /\ statics'.poolConfig = <<statics.configuration>>
          /\ pool.exists =>
                 /\ pool'.exists
                 /\ pool.draining => pool'.draining
                 /\ pool'.browserId >= pool.browserId
                 /\ statics'.poolConfig = statics.poolConfig
                 /\ \A b \in BrowserIds :
                        pool.browsers[b].st # "none" => pool'.browsers[b].st # "none"]_vars

\* setConfiguration and closePool were called when there was no pool and
\* left none; then two conversions were lent browsers of the one pool
C37_Witness ==
    /\ statics.closePool[1].pc = "resolved" /\ ~statics.closePool[1].pool
    /\ Len(statics.setCalls) >= 1 /\ ~statics.setCalls[1].pool
    /\ pool.exists /\ Len(statics.poolConfig) = 1
    /\ \A c \in Users : cgot[c] = 1


(***************************************************************************)
(* Properties of the sizes handed downstream.                              *)
(***************************************************************************)

\* C38: when setGetDimensions resolves, the width and height given to
\* page.setViewport, and from there to the clips and the encoder, are the
\* sizes getDimensions found rounded to the nearest integer, and each is at
\* least 1.
C38_PositiveIntegers ==
    dim.pc = "setViewport" =>
        LET v == dim.viewport[1]
        IN  /\ v.width = round(dim.got.width) /\ v.height = round(dim.got.height)
            /\ v.width \in Nat /\ v.height \in Nat
            /\ v.width >= 1 /\ v.height >= 1


(***************************************************************************)
(* More properties of the conversion timer.                                *)
(***************************************************************************)

\* C39: the timer callback of a request runs only while its status is
\* NOT_STARTED or PENDING and at most once: a timer that fired or was cleared
\* is never armed again, no settled request (DONE or FAILED) has an armed
\* timer, so the reason is never the 'Developer ERROR' one and
\* cancelConversion, called once at most, never throws.
C39_TimerOnlyWhileRunning ==
    /\ [][\A r \in Reqs :
             /\ Fires(r) =>
                    /\ conv[r].status \in {"NOT_STARTED", "PENDING"}
                    /\ ~alreadyCancelled(conv[r])
                    /\ conv'[r].cancellingReason =
                           IF conv[r].status = "PENDING"
                           THEN "timeout rasterizing SVG"
                           ELSE "timeout before it could use the browser"
             /\ conv[r].timer \in {"fired", "cleared"} => conv'[r].timer = conv[r].timer
             /\ conv[r].cancellingReason # "" =>
                    conv'[r].cancellingReason = conv[r].cancellingReason]_vars
    /\ [](\A r \in Reqs :
             /\ conv[r].status \in {"DONE", "FAILED"} => conv[r].timer \in {"fired", "cleared"}
             /\ Settled(conv[r]) => conv[r].timer \in {"fired", "cleared"}
             /\ conv[r].cancellingReason # "Developer ERROR: timeout not cancelled")

\* the timer of one request fired while it waited for a browser, that of the
\* other while it had a page; a third outcome, a timer cleared by a request
\* that settled, is in C3_Witness
C39_Witness ==
    \E a, b \in Reqs :
        /\ conv[a].timer = "fired" /\ conv[a].cancelledAt = "acquire"
        /\ conv[a].cancellingReason = "timeout before it could use the browser"
        /\ conv[b].timer = "fired"
        /\ conv[b].cancellingReason = "timeout rasterizing SVG"

====
